---- MODULE Spec2Model ----
(***************************************************************************)
(* Delivery simulation engine (phase2): DeliverySimulation.tick and the    *)
(* Request / Driver state machines, the two dispatch policies and the      *)
(* driver behaviours.                                                      *)
(*                                                                         *)
(* Objects are modelled by reference.  Point objects live in the heap pt   *)
(* (a sequence of [x, y] records); a driver's position, its                *)
(* position_at_assignment and a request's pickup / dropoff are indices     *)
(* into pt, so that `self.position = destination` (rebinding) and          *)
(* `self.position += travel` (Point.__iadd__, in place) are told apart.    *)
(* Request objects are identified by their index in self.requests, driver  *)
(* objects by their index in self.drivers.  Coordinates, speeds and        *)
(* distances are integers: the inputs are drawn from points for which      *)
(* every distance and every movement step the run computes is integral.    *)
(***************************************************************************)
EXTENDS Integers, Sequences, FiniteSets, TLC

VARIABLES time, timeout, policy, mutation_rules, drivers, requests, pt,
          next_id, served_count, expired_count, total_wait_time,
          completed_deliveries, metrics_log, obs

vars == <<time, timeout, policy, mutation_rules, drivers, requests, pt,
          next_id, served_count, expired_count, total_wait_time,
          completed_deliveries, metrics_log, obs>>

----------------------------------------------------------------------------
(* Bounds of the model *)

MaxTime == 8

MaxGenTime == 2

MockMaxTime == 2

(* Python's None, for object references, driver ids and rewards *)
None == 0

NoReward == 0 - 1

Speeds == {1, 2}

Timeouts == {1, 5}

GenCounts == {0, 1}

NoTick == 0 - 1

----------------------------------------------------------------------------
(* Sequence helpers *)

RECURSIVE RemoveFirst(_, _)
RemoveFirst(seq, e) ==
    IF seq = <<>> THEN <<>>
    ELSE IF Head(seq) = e THEN Tail(seq)
    ELSE <<Head(seq)>> \o RemoveFirst(Tail(seq), e)

----------------------------------------------------------------------------
(* Point *)

Point(x, y) == [x |-> x, y |-> y]

ISqrt(n) == CHOOSE k \in 0..n : k * k <= n /\ n < (k + 1) * (k + 1)

distance_to(p, q) ==
    LET dx == p.x - q.x
        dy == p.y - q.y
    IN  ISqrt(dx * dx + dy * dy)

point_sub(p, q) == Point(p.x - q.x, p.y - q.y)

(* direction * ratio with ratio = movement / distance *)
point_mul_ratio(p, movement, distance) ==
    Point((p.x * movement) \div distance, (p.y * movement) \div distance)

point_iadd(p, q) == Point(p.x + q.x, p.y + q.y)

----------------------------------------------------------------------------
(* Request *)

Request(id, pickup, dropoff, creation_time) ==
    [id |-> id, pickup |-> pickup, dropoff |-> dropoff,
     creation_time |-> creation_time,
     status |-> "WAITING", assigned_driver_id |-> None, wait_time |-> 0]

mark_assigned(r, driver_id) ==
    [r EXCEPT !.status = "ASSIGNED", !.assigned_driver_id = driver_id]

(* mutant: the pickup does not recompute wait_time *)
mark_pickedKeepsWait(r, t) == [r EXCEPT !.status = "PICKED"]

mark_picked(r, t) ==
    [r EXCEPT !.status = "PICKED", !.wait_time = t - r.creation_time]

(* mutant: the delivery keeps the pickup-time wait_time *)
mark_deliveredKeepsWait(r, t) == [r EXCEPT !.status = "DELIVERED"]

mark_delivered(r, t) ==
    [r EXCEPT !.status = "DELIVERED", !.wait_time = t - r.creation_time]

(* mutant: the expiry records the wait but leaves the status *)
mark_expiredKeepsStatus(r, t) == [r EXCEPT !.wait_time = t - r.creation_time]

mark_expired(r, t) ==
    [r EXCEPT !.status = "EXPIRED", !.wait_time = t - r.creation_time]

(* mutant: the wait is counted from the tick before creation *)
update_waitOffByOne(r, current_time) ==
    [r EXCEPT !.wait_time = current_time - r.creation_time + 1]

update_wait(r, current_time) ==
    [r EXCEPT !.wait_time = current_time - r.creation_time]

----------------------------------------------------------------------------
(* Driver.  The operators take the engine state s (a record of the        *)
(* variables) and the index d of the driver in s.drivers.                 *)

Driver(driver_id, position, speed, behaviour) ==
    [id |-> driver_id, position |-> position, speed |-> speed,
     behaviour |-> behaviour, status |-> "IDLE", current_request |-> None,
     position_at_assignment |-> None, assigned_reward |-> 0,
     history |-> <<>>]

assign_request(s, d, r, assignment_meta, reward) ==
    LET drv == s.drivers[d]
        new_reward == IF reward = NoReward /\ assignment_meta # NoReward
                      THEN 0
                      ELSE IF reward # NoReward THEN reward ELSE 0
    IN  [s EXCEPT
           !.drivers[d] = [drv EXCEPT
                             !.position_at_assignment = drv.position,
                             !.current_request = r,
                             !.assigned_reward = new_reward,
                             !.status = "TO_PICKUP"],
           !.requests[r] = mark_assigned(s.requests[r], drv.id)]

target_point(s, d) ==
    LET drv == s.drivers[d]
    IN  IF drv.current_request = None \/ drv.status = "IDLE" THEN None
        ELSE IF drv.status = "TO_PICKUP"
             THEN s.requests[drv.current_request].pickup
        ELSE IF drv.status = "TO_DROPOFF"
             THEN s.requests[drv.current_request].dropoff
        ELSE None

(* mutant: the driver always moves speed * dt, also when the target is   *)
(* nearer than that                                                       *)
stepOvershoots(s, d, dt) ==
    LET drv == s.drivers[d]
        destination == target_point(s, d)
    IN  IF destination = None THEN s
        ELSE
          LET distance == distance_to(s.pt[drv.position], s.pt[destination])
              movement == drv.speed * dt
          IN  IF distance = 0
              THEN [s EXCEPT !.drivers[d].position = destination]
              ELSE
                LET direction == point_sub(s.pt[destination], s.pt[drv.position])
                    travel == point_mul_ratio(direction, movement, distance)
                IN  [s EXCEPT !.pt[drv.position] = point_iadd(@, travel)]

step(s, d, dt) ==
    LET drv == s.drivers[d]
        destination == target_point(s, d)
    IN  IF destination = None THEN s
        ELSE
          LET distance == distance_to(s.pt[drv.position], s.pt[destination])
              movement == drv.speed * dt
          IN  IF distance <= movement
              THEN [s EXCEPT !.drivers[d].position = destination]
              ELSE
                LET direction == point_sub(s.pt[destination], s.pt[drv.position])
                    travel == point_mul_ratio(direction, movement, distance)
                IN  [s EXCEPT !.pt[drv.position] = point_iadd(@, travel)]

complete_pickupKeepsAssigned(s, d, t) ==
    LET drv == s.drivers[d]
    IN  IF drv.current_request # None /\ drv.status = "TO_PICKUP"
        THEN [s EXCEPT !.drivers[d].status = "TO_DROPOFF"]
        ELSE s

complete_pickup(s, d, t) ==
    LET drv == s.drivers[d]
    IN  IF drv.current_request # None /\ drv.status = "TO_PICKUP"
        THEN [s EXCEPT
                !.drivers[d].status = "TO_DROPOFF",
                !.requests[drv.current_request] = mark_picked(@, t)]
        ELSE s

(* mutant: the dropoff does not clear current_request *)
complete_dropoffKeepsRequest(s, d, t) ==
    LET drv == s.drivers[d]
    IN  IF /\ drv.current_request # None
           /\ drv.status = "TO_DROPOFF"
           /\ drv.position_at_assignment # None
        THEN
          LET r == drv.current_request
              req == mark_delivered(s.requests[r], t)
              record == [driver_id |-> drv.id, request_id |-> req.id,
                         completion_time |-> t,
                         earnings |-> drv.assigned_reward,
                         total_distance |->
                           distance_to(s.pt[drv.position_at_assignment],
                                       s.pt[req.pickup])
                           + distance_to(s.pt[req.pickup], s.pt[req.dropoff])]
          IN  [s EXCEPT
                 !.requests[r] = req,
                 !.drivers[d] = [drv EXCEPT
                                   !.history = Append(@, record),
                                   !.status = "IDLE",
                                   !.position_at_assignment = None,
                                   !.assigned_reward = 0]]
        ELSE s

(* mutant: the TripRecord is stamped with the clock of the next tick *)
complete_dropoffStampsNextTick(s, d, t) ==
    LET s1 == complete_dropoffKeepsRequest(s, d, t)
        n == Len(s1.drivers[d].history)
    IN  IF s1 = s THEN s
        ELSE [s1 EXCEPT !.drivers[d].current_request = None,
                        !.drivers[d].history[n].completion_time = t + 1]

complete_dropoff(s, d, t) ==
    LET drv == s.drivers[d]
    IN  IF /\ drv.current_request # None
           /\ drv.status = "TO_DROPOFF"
           /\ drv.position_at_assignment # None
        THEN
          LET r == drv.current_request
              req == mark_delivered(s.requests[r], t)
              total_distance ==
                  distance_to(s.pt[drv.position_at_assignment], s.pt[req.pickup])
                  + distance_to(s.pt[req.pickup], s.pt[req.dropoff])
              record == [driver_id |-> drv.id, request_id |-> req.id,
                         completion_time |-> t,
                         earnings |-> drv.assigned_reward,
                         total_distance |-> total_distance]
          IN  [s EXCEPT
                 !.requests[r] = req,
                 !.drivers[d] = [drv EXCEPT
                                   !.history = Append(@, record),
                                   !.current_request = None,
                                   !.status = "IDLE",
                                   !.position_at_assignment = None,
                                   !.assigned_reward = 0]]
        ELSE s

----------------------------------------------------------------------------
(* Driver behaviours.  A behaviour is a record [kind, param]; an Offer is  *)
(* built per proposed pair in _process_offers.  estimated_travel_time is   *)
(* the rational travel_num / travel_den and estimated_reward is            *)
(* reward2 / 2 (15.0 + 1.5 * total_distance).                              *)

LazyBehaviour(min_wait_time) == [kind |-> "LazyBehaviour", param |-> min_wait_time]

GreedyDistanceBehaviour(max_distance) ==
    [kind |-> "GreedyDistanceBehaviour", param |-> max_distance]

EarningMaxBehaviour(min_ratio) == [kind |-> "EarningMaxBehaviour", param |-> min_ratio]

(* a driver constructed without a behaviour: self.behaviour is None *)
NoBehaviour == [kind |-> "None", param |-> 0]

Offer(s, d, r) ==
    LET drv == s.drivers[d]
        req == s.requests[r]
        distance_to_pickup == distance_to(s.pt[drv.position], s.pt[req.pickup])
        distance_pickup_to_dropoff == distance_to(s.pt[req.pickup], s.pt[req.dropoff])
        total_distance == distance_to_pickup + distance_pickup_to_dropoff
    IN  [driver |-> d, request |-> r,
         travel_num |-> distance_to_pickup, travel_den |-> drv.speed,
         reward2 |-> 30 + 3 * total_distance]

(* mutant: the driver's status is not looked at *)
LazyDecideIgnoresStatus(s, b, d, offer, t) ==
    s.requests[offer.request].wait_time >= b.param

(* mutant: the request is accepted one tick before min_wait_time *)
LazyDecideOneTickEarly(s, b, d, offer, t) ==
    /\ s.drivers[d].status = "IDLE"
    /\ s.requests[offer.request].wait_time + 1 >= b.param

LazyDecide(s, b, d, offer, t) ==
    /\ s.drivers[d].status = "IDLE"
    /\ s.requests[offer.request].wait_time >= b.param

(* mutant: a pickup at exactly max_distance is accepted *)
GreedyDistanceDecideInclusive(s, b, d, offer, t) ==
    distance_to(s.pt[s.drivers[d].position],
                s.pt[s.requests[offer.request].pickup]) <= b.param

GreedyDistanceDecide(s, b, d, offer, t) ==
    distance_to(s.pt[s.drivers[d].position],
                s.pt[s.requests[offer.request].pickup]) < b.param

(* mutant: the threshold does not grow with the time *)
EarningMaxDecideIgnoresTime(s, b, d, offer, t) ==
    /\ offer.reward2 # NoReward
    /\ offer.travel_num > 0
    /\ offer.reward2 * offer.travel_den >= 2 * offer.travel_num * b.param

(* reward / travel_time >= min_ratio * (1 + 0.0005 * time), cross-multiplied; *)
(* an offer without a reward (None) and a travel time <= 0 are refused      *)
EarningMaxDecide(s, b, d, offer, t) ==
    /\ offer.reward2 # NoReward
    /\ offer.travel_num > 0
    /\ offer.reward2 * offer.travel_den * 2000
         >= 2 * offer.travel_num * b.param * (2000 + t)

(* the exception driver.behaviour.decide(...) raises: None has no decide *)
DecideError(s, d) ==
    IF s.drivers[d].behaviour = NoBehaviour THEN "AttributeError" ELSE "none"

decide(s, d, offer, t) ==
    LET b == s.drivers[d].behaviour
    IN  IF b.kind = "LazyBehaviour" THEN LazyDecide(s, b, d, offer, t)
        ELSE IF b.kind = "GreedyDistanceBehaviour"
             THEN GreedyDistanceDecide(s, b, d, offer, t)
        ELSE EarningMaxDecide(s, b, d, offer, t)

(* driver.behaviour.decide(driver, offer, time): the three decide methods *)
(* read the driver, the offer and its request and assign nothing          *)
DecideCall(s, d, offer, t) == [decision |-> decide(s, d, offer, t), s |-> s]

----------------------------------------------------------------------------
(* Dispatch policies.  assign(drivers, requests, time) gets the engine's   *)
(* driver list and the list of request objects (indices) it is passed and  *)
(* returns a sequence of <<driver, request>> pairs.                        *)

PickupDistance(s, d, r) ==
    distance_to(s.pt[s.drivers[d].position], s.pt[s.requests[r].pickup])

(* mutant: the policy does not filter the drivers on status IDLE *)
RECURSIVE IdleFromAnyStatus(_, _)
IdleFromAnyStatus(s, d) ==
    IF d > Len(s.drivers) THEN <<>>
    ELSE <<d>> \o IdleFromAnyStatus(s, d + 1)

RECURSIVE IdleFrom(_, _)
IdleFrom(s, d) ==
    IF d > Len(s.drivers) THEN <<>>
    ELSE IF s.drivers[d].status = "IDLE" THEN <<d>> \o IdleFrom(s, d + 1)
    ELSE IdleFrom(s, d + 1)

(* mutant: the scan replaces the best pair on an equal distance as well *)
RECURSIVE NNScanTakesLast(_, _, _, _, _, _)
NNScanTakesLast(s, idle_drivers, waiting_requests, i, j, best) ==
    IF i > Len(idle_drivers) THEN best
    ELSE IF j > Len(waiting_requests)
         THEN NNScanTakesLast(s, idle_drivers, waiting_requests, i + 1, 1, best)
    ELSE
      LET distance == PickupDistance(s, idle_drivers[i], waiting_requests[j])
      IN  IF best.pair = <<>> \/ distance <= best.distance
          THEN NNScanTakesLast(s, idle_drivers, waiting_requests, i, j + 1,
                               [distance |-> distance,
                                pair |-> <<idle_drivers[i], waiting_requests[j]>>])
          ELSE NNScanTakesLast(s, idle_drivers, waiting_requests, i, j + 1, best)

(* the double loop of NearestNeighborPolicy.assign from position (i, j) on *)
RECURSIVE NNScan(_, _, _, _, _, _)
NNScan(s, idle_drivers, waiting_requests, i, j, best) ==
    IF i > Len(idle_drivers) THEN best
    ELSE IF j > Len(waiting_requests)
         THEN NNScan(s, idle_drivers, waiting_requests, i + 1, 1, best)
    ELSE
      LET distance == PickupDistance(s, idle_drivers[i], waiting_requests[j])
      IN  IF best.pair = <<>> \/ distance < best.distance
          THEN NNScan(s, idle_drivers, waiting_requests, i, j + 1,
                      [distance |-> distance,
                       pair |-> <<idle_drivers[i], waiting_requests[j]>>])
          ELSE NNScan(s, idle_drivers, waiting_requests, i, j + 1, best)

(* mutant: each round pairs the first idle driver with the first request *)
RECURSIVE NNLoopTakesFirstPair(_, _, _, _)
NNLoopTakesFirstPair(s, idle_drivers, waiting_requests, matches) ==
    IF idle_drivers = <<>> \/ waiting_requests = <<>> THEN matches
    ELSE NNLoopTakesFirstPair(s, Tail(idle_drivers), Tail(waiting_requests),
                              Append(matches, <<Head(idle_drivers),
                                                Head(waiting_requests)>>))

RECURSIVE NNLoop(_, _, _, _)
NNLoop(s, idle_drivers, waiting_requests, matches) ==
    IF idle_drivers = <<>> \/ waiting_requests = <<>> THEN matches
    ELSE
      LET best == NNScan(s, idle_drivers, waiting_requests, 1, 1,
                         [distance |-> 0, pair |-> <<>>])
      IN  IF best.pair = <<>> THEN matches
          ELSE NNLoop(s, RemoveFirst(idle_drivers, best.pair[1]),
                      RemoveFirst(waiting_requests, best.pair[2]),
                      Append(matches, best.pair))

(* the drivers list a caller passes in *)
DriversArg(s) == [d \in 1..Len(s.drivers) |-> d]

(* mutant: waiting_requests is the list that was passed in, not a copy of *)
(* it, so the matched requests are removed from the caller's list         *)
NearestNeighborAssignAliasesRequests(s, reqs) ==
    LET matches == NNLoop(s, IdleFrom(s, 1), reqs, <<>>)
        matched(r) == \E k \in 1..Len(matches) : matches[k][2] = r
    IN  [raised |-> FALSE, matches |-> matches, s |-> s,
         drivers_arg |-> DriversArg(s),
         requests_arg |-> SelectSeq(reqs, LAMBDA r : ~matched(r))]

(* idle_drivers is a new list and waiting_requests a copy (requests[:]);  *)
(* the loop removes from these two and assigns no attribute of a driver   *)
(* or request: the state s and both argument lists are as before the call *)
NearestNeighborAssign(s, reqs) ==
    [raised |-> FALSE, matches |-> NNLoop(s, IdleFrom(s, 1), reqs, <<>>),
     s |-> s,
     drivers_arg |-> DriversArg(s),
     requests_arg |-> reqs]

(* combos of GlobalGreedyPolicy.assign: (distance, driver_index, driver, request) *)
RECURSIVE GGCombos(_, _, _, _)
GGCombos(s, reqs, d, j) ==
    IF d > Len(s.drivers) THEN <<>>
    ELSE IF s.drivers[d].status # "IDLE" \/ j > Len(reqs)
         THEN GGCombos(s, reqs, d + 1, 1)
    ELSE <<[distance |-> PickupDistance(s, d, reqs[j]), driver_index |-> d - 1,
            driver |-> d, request |-> reqs[j]]>>
         \o GGCombos(s, reqs, d, j + 1)

(* tuple comparison of two combos: the first two components are numbers,  *)
(* the third and fourth are objects without an ordering                   *)
ComboLess(a, b) ==
    \/ a.distance < b.distance
    \/ a.distance = b.distance /\ a.driver_index < b.driver_index

(* combos.sort() raises TypeError when two combos agree on distance,      *)
(* driver_index and driver and hold different Request objects             *)
SortRaises(combos) ==
    \E i, j \in 1..Len(combos) :
        /\ i # j
        /\ combos[i].distance = combos[j].distance
        /\ combos[i].driver_index = combos[j].driver_index
        /\ combos[i].driver = combos[j].driver
        /\ combos[i].request # combos[j].request

(* mutant: the combos are swept in the order they were appended *)
SortCombosKeepsOrder(combos) == combos

RECURSIVE SortCombos(_)
SortCombos(combos) ==
    IF combos = <<>> THEN <<>>
    ELSE
      LET m == CHOOSE i \in 1..Len(combos) :
                   \A j \in 1..Len(combos) :
                       \/ ComboLess(combos[i], combos[j])
                       \/ ~ComboLess(combos[j], combos[i]) /\ i <= j
      IN  <<combos[m]>>
          \o SortCombos([k \in 1..(Len(combos) - 1) |->
                            IF k < m THEN combos[k] ELSE combos[k + 1]])

(* mutant: the sweep does not track the drivers it has used *)
RECURSIVE GGSweepReusesDrivers(_, _, _, _)
GGSweepReusesDrivers(combos, used_drivers, used_requests, matches) ==
    IF combos = <<>> THEN matches
    ELSE
      LET c == Head(combos)
      IN  IF c.request \notin used_requests
          THEN GGSweepReusesDrivers(Tail(combos), used_drivers,
                                    used_requests \cup {c.request},
                                    Append(matches, <<c.driver, c.request>>))
          ELSE GGSweepReusesDrivers(Tail(combos), used_drivers,
                                    used_requests, matches)

RECURSIVE GGSweep(_, _, _, _)
GGSweep(combos, used_drivers, used_requests, matches) ==
    IF combos = <<>> THEN matches
    ELSE
      LET c == Head(combos)
      IN  IF c.driver \notin used_drivers /\ c.request \notin used_requests
          THEN GGSweep(Tail(combos), used_drivers \cup {c.driver},
                       used_requests \cup {c.request},
                       Append(matches, <<c.driver, c.request>>))
          ELSE GGSweep(Tail(combos), used_drivers, used_requests, matches)

GlobalGreedyAssign(s, reqs) ==
    LET combos == GGCombos(s, reqs, 1, 1)
    IN  IF SortRaises(combos)
        THEN [raised |-> TRUE, matches |-> <<>>, s |-> s,
              drivers_arg |-> DriversArg(s),
              requests_arg |-> reqs]
        ELSE [raised |-> FALSE,
              matches |-> GGSweep(SortCombos(combos), {}, {}, <<>>),
              s |-> s,
              drivers_arg |-> DriversArg(s),
              requests_arg |-> reqs]

----------------------------------------------------------------------------
(* Mutation rules.  Probabilities and rolls are in thousandths, the       *)
(* threshold of PerformanceBasedMutation in halves; maybe_mutate returns   *)
(* the engine state after the call and whether driver.behaviour was       *)
(* assigned a new object.                                                 *)

Min(a, b) == IF a <= b THEN a ELSE b

Max(a, b) == IF a >= b THEN a ELSE b

ExplorationMutationRule(probability) ==
    [kind |-> "ExplorationMutationRule",
     probability |-> Min(1000, Max(0, probability))]

PerformanceBasedMutation(threshold2, N) ==
    [kind |-> "PerformanceBasedMutation", threshold2 |-> threshold2, N |-> N]

(* min(1.0, max(0.0, probability * (1 + time * 0.0005))), times 2000000 *)
EffectiveProbability(rule, t) ==
    Min(1000 * 2000, Max(0, rule.probability * (2000 + t)))

ExplorationTriggers(rule, t, roll) == roll * 2000 < EffectiveProbability(rule, t)

(* the keyword parameters of LazyBehaviour.__init__ *)
LazyKeywords == {"min_wait_time"}

(* LazyBehaviour(keyword=value): an unexpected keyword raises TypeError *)
NewLazyBehaviour(keyword, value) ==
    IF keyword \in LazyKeywords
    THEN [raised |-> "none", behaviour |-> LazyBehaviour(value)]
    ELSE [raised |-> "TypeError", behaviour |-> NoBehaviour]

(* the exception classes the two switch statements of maybe_mutate catch *)
SwitchCaught == {"AttributeError", "TypeError", "ValueError"}

ExplorationMaybeMutate(s, d, rule, t, roll) ==
    IF ~ExplorationTriggers(rule, t, roll) THEN [s |-> s, assigned |-> FALSE]
    ELSE IF s.drivers[d].behaviour.kind = "LazyBehaviour"
    THEN [s |-> [s EXCEPT !.drivers[d].behaviour = GreedyDistanceBehaviour(10)],
          assigned |-> TRUE]
    ELSE
      LET new == NewLazyBehaviour("max_idle", 5)
      IN  IF new.raised \in SwitchCaught THEN [s |-> s, assigned |-> FALSE]
          ELSE [s |-> [s EXCEPT !.drivers[d].behaviour = new.behaviour],
                assigned |-> TRUE]

(* the "served" values of the entries that have one *)
RECURSIVE ServedCounts(_)
ServedCounts(entries) ==
    IF entries = <<>> THEN <<>>
    ELSE (IF "served" \in DOMAIN Head(entries) THEN <<Head(entries).served>>
          ELSE <<>>)
         \o ServedCounts(Tail(entries))

RECURSIVE SumOf(_)
SumOf(seq) == IF seq = <<>> THEN 0 ELSE Head(seq) + SumOf(Tail(seq))

(* history[-window:] for 0 < window <= len(history) *)
LastEntries(history, window) ==
    SubSeq(history, Len(history) - window + 1, Len(history))

(* mutant: the mean is taken over the whole history *)
PerformanceMaybeMutateWholeHistory(s, d, rule, t) ==
    LET history == s.drivers[d].history
        window == rule.N
        served_counts == ServedCounts(history)
    IN  IF Len(history) < window \/ window <= 0 THEN [s |-> s, assigned |-> FALSE]
        ELSE IF served_counts = <<>> THEN [s |-> s, assigned |-> FALSE]
        ELSE IF 2 * SumOf(served_counts) < rule.threshold2 * Len(served_counts)
        THEN [s |-> [s EXCEPT !.drivers[d].behaviour = GreedyDistanceBehaviour(10)],
              assigned |-> TRUE]
        ELSE [s |-> s, assigned |-> FALSE]

PerformanceMaybeMutate(s, d, rule, t) ==
    LET history == s.drivers[d].history
        window == rule.N
    IN  IF Len(history) < window \/ window <= 0 THEN [s |-> s, assigned |-> FALSE]
        ELSE
          LET served_counts == ServedCounts(LastEntries(history, window))
          IN  IF served_counts = <<>> THEN [s |-> s, assigned |-> FALSE]
              ELSE IF 2 * SumOf(served_counts)
                        < rule.threshold2 * Len(served_counts)
              THEN [s |-> [s EXCEPT !.drivers[d].behaviour =
                                       GreedyDistanceBehaviour(10)],
                    assigned |-> TRUE]
              ELSE [s |-> s, assigned |-> FALSE]

maybe_mutate(s, d, rule, t, roll) ==
    IF rule.kind = "ExplorationMutationRule"
    THEN ExplorationMaybeMutate(s, d, rule, t, roll)
    ELSE PerformanceMaybeMutate(s, d, rule, t)

----------------------------------------------------------------------------
(* RequestGenerator.maybe_generate: draws is the sequence of random        *)
(* (pickup, dropoff) coordinates drawn in this call; each Request gets two *)
(* fresh Point objects, id next_id and creation_time = time.               *)

RECURSIVE maybe_generate(_, _)
maybe_generate(s, draws) ==
    IF draws = <<>> THEN s
    ELSE
      LET pickup == Len(s.pt) + 1
          dropoff == Len(s.pt) + 2
          req == Request(s.next_id, pickup, dropoff, s.time)
      IN  maybe_generate(
              [s EXCEPT !.pt = @ \o <<Head(draws).pickup, Head(draws).dropoff>>,
                        !.requests = Append(@, req),
                        !.next_id = @ + 1],
              Tail(draws))

----------------------------------------------------------------------------
(* DeliverySimulation: the stages of tick() *)

_generate_new_requests(s, draws) == maybe_generate(s, draws)

(* mutant: the expiry check is not restricted to WAITING requests *)
RECURSIVE UpdateWaitingFromAnyStatus(_, _, _)
UpdateWaitingFromAnyStatus(s, i, waiting_requests) ==
    IF i > Len(s.requests)
    THEN [s |-> s, waiting_requests |-> waiting_requests]
    ELSE IF s.requests[i].status \in {"WAITING", "ASSIGNED"}
    THEN
      LET req == update_wait(s.requests[i], s.time)
      IN  IF req.wait_time > s.timeout
          THEN UpdateWaitingFromAnyStatus(
                   [s EXCEPT !.requests[i] = mark_expired(req, s.time),
                             !.expired_count = @ + 1],
                   i + 1, waiting_requests)
          ELSE UpdateWaitingFromAnyStatus([s EXCEPT !.requests[i] = req],
                                          i + 1, Append(waiting_requests, i))
    ELSE UpdateWaitingFromAnyStatus(s, i + 1, waiting_requests)

(* mutant: an expired request is still handed to the policy *)
RECURSIVE UpdateWaitingKeepsExpired(_, _, _)
UpdateWaitingKeepsExpired(s, i, waiting_requests) ==
    IF i > Len(s.requests)
    THEN [s |-> s, waiting_requests |-> waiting_requests]
    ELSE IF s.requests[i].status = "WAITING"
    THEN
      LET req == update_wait(s.requests[i], s.time)
      IN  IF req.wait_time > s.timeout
          THEN UpdateWaitingKeepsExpired(
                   [s EXCEPT !.requests[i] = mark_expired(req, s.time),
                             !.expired_count = @ + 1],
                   i + 1, Append(waiting_requests, i))
          ELSE UpdateWaitingKeepsExpired([s EXCEPT !.requests[i] = req],
                                         i + 1, Append(waiting_requests, i))
    ELSE UpdateWaitingKeepsExpired(s, i + 1, waiting_requests)

RECURSIVE UpdateWaitingFrom(_, _, _)
UpdateWaitingFrom(s, i, waiting_requests) ==
    IF i > Len(s.requests)
    THEN [s |-> s, waiting_requests |-> waiting_requests]
    ELSE IF s.requests[i].status = "WAITING"
    THEN
      LET req == update_wait(s.requests[i], s.time)
      IN  IF req.wait_time > s.timeout
          THEN UpdateWaitingFrom(
                   [s EXCEPT !.requests[i] = mark_expired(req, s.time),
                             !.expired_count = @ + 1],
                   i + 1, waiting_requests)
          ELSE UpdateWaitingFrom([s EXCEPT !.requests[i] = req],
                                 i + 1, Append(waiting_requests, i))
    ELSE UpdateWaitingFrom(s, i + 1, waiting_requests)

_update_waiting_time(s) == UpdateWaitingFrom(s, 1, <<>>)

(* mock is the list a user-supplied DispatchPolicy returns; an exception   *)
(* of the built-in policy is caught and gives the empty list               *)
_propose_assignments(s, active_requests, mock) ==
    IF s.policy = "NearestNeighborPolicy"
    THEN NearestNeighborAssign(s, active_requests).matches
    ELSE IF s.policy = "GlobalGreedyPolicy"
    THEN LET res == GlobalGreedyAssign(s, active_requests)
         IN  IF res.raised THEN <<>> ELSE res.matches
    ELSE mock

(* the exception classes the decide call site of _process_offers catches *)
DecideCaught == {"TypeError", "ValueError"}

(* mutant: every proposal is accepted, whatever decide returns *)
ProcessOffersAcceptsAll(s, proposals, accepted) ==
    [raised |-> FALSE, accepted |-> accepted \o proposals]

(* the loop of _process_offers; an exception the call site does not catch *)
(* leaves the loop and the method (raised)                                *)
RECURSIVE ProcessOffersFrom(_, _, _)
ProcessOffersFrom(s, proposals, accepted) ==
    IF proposals = <<>> THEN [raised |-> FALSE, accepted |-> accepted]
    ELSE
      LET d == Head(proposals)[1]
          r == Head(proposals)[2]
          offer == Offer(s, d, r)
          err == DecideError(s, d)
      IN  IF err # "none" /\ err \notin DecideCaught
          THEN [raised |-> TRUE, accepted |-> accepted]
          ELSE
            LET decision == IF err # "none" THEN FALSE
                            ELSE decide(s, d, offer, s.time)
            IN  ProcessOffersFrom(s, Tail(proposals),
                                  IF decision
                                  THEN Append(accepted, Head(proposals))
                                  ELSE accepted)

_process_offers(s, proposals) == ProcessOffersFrom(s, proposals, <<>>)

(* mutant: the drivers consumed in this tick are not tracked *)
FinalizeSkipsRequestsOnly(s, pair, used_requests, used_drivers) ==
    \/ pair[2] \in used_requests
    \/ s.requests[pair[2]].status = "ASSIGNED"

FinalizeSkips(s, pair, used_requests, used_drivers) ==
    \/ pair[2] \in used_requests
    \/ pair[1] \in used_drivers
    \/ s.requests[pair[2]].status = "ASSIGNED"

(* the loop of _finalize_assigments from pair i on; trace collects the    *)
(* engine state after every assign_request call, calls the pair of every  *)
(* call with the status its driver and its request had just before, the   *)
(* coordinates of the driver and twice the estimated_reward of the pair's *)
(* offer                                                                  *)
RECURSIVE FinalizeFrom(_, _, _, _, _, _, _)
FinalizeFrom(s, accepted, i, used_requests, used_drivers, trace, calls) ==
    IF i > Len(accepted) THEN [s |-> s, trace |-> trace, calls |-> calls]
    ELSE IF FinalizeSkips(s, accepted[i], used_requests, used_drivers)
    THEN FinalizeFrom(s, accepted, i + 1, used_requests, used_drivers,
                      trace, calls)
    ELSE
      LET d == accepted[i][1]
          r == accepted[i][2]
          s1 == assign_request(s, d, r, s.time, NoReward)
      IN  FinalizeFrom(s1, accepted, i + 1,
                       used_requests \cup {r}, used_drivers \cup {d},
                       Append(trace, s1),
                       Append(calls, [index |-> i, driver |-> d, request |-> r,
                                      driver_status |-> s.drivers[d].status,
                                      request_status |-> s.requests[r].status,
                                      driver_position |->
                                          s.pt[s.drivers[d].position],
                                      reward2 |-> Offer(s, d, r).reward2]))

_finalize_assigments(s, accepted) ==
    FinalizeFrom(s, accepted, 1, {}, {}, <<>>, <<>>)

(* mutant: arriving at the pickup point is never noticed *)
PickupArrivalNever(s, d) == s

PickupArrival(s, d) ==
    LET drv == s.drivers[d]
    IN  IF /\ drv.current_request # None
           /\ drv.status = "TO_PICKUP"
           /\ distance_to(s.pt[drv.position],
                          s.pt[s.requests[drv.current_request].pickup]) = 0
        THEN complete_pickup(s, d, s.time)
        ELSE s

(* mutant: a dropoff is not completed in the tick of the pickup *)
DropoffArrivalAfterPickupTick(s, d) ==
    LET drv == s.drivers[d]
    IN  IF /\ drv.current_request # None
           /\ drv.status = "TO_DROPOFF"
           /\ distance_to(s.pt[drv.position],
                          s.pt[s.requests[drv.current_request].dropoff]) = 0
           /\ s.requests[drv.current_request].wait_time
                < s.time - s.requests[drv.current_request].creation_time
        THEN
          LET request == drv.current_request
              s1 == complete_dropoff(s, d, s.time)
          IN  [s1 EXCEPT !.served_count = @ + 1,
                         !.completed_deliveries = @ + 1,
                         !.total_wait_time = @ + s1.requests[request].wait_time]
        ELSE s

DropoffArrival(s, d) ==
    LET drv == s.drivers[d]
    IN  IF /\ drv.current_request # None
           /\ drv.status = "TO_DROPOFF"
           /\ distance_to(s.pt[drv.position],
                          s.pt[s.requests[drv.current_request].dropoff]) = 0
        THEN
          LET request == drv.current_request
              s1 == complete_dropoff(s, d, s.time)
          IN  [s1 EXCEPT !.served_count = @ + 1,
                         !.completed_deliveries = @ + 1,
                         !.total_wait_time = @ + s1.requests[request].wait_time]
        ELSE s

(* the loop of _move_drivers_and_handle_events from driver d on; trace    *)
(* collects the state after each step, pickup check and dropoff check     *)
RECURSIVE MoveFrom(_, _, _)
MoveFrom(s, d, trace) ==
    IF d > Len(s.drivers) THEN [s |-> s, trace |-> trace]
    ELSE
      LET s1 == step(s, d, 1)
          s2 == PickupArrival(s1, d)
          s3 == DropoffArrival(s2, d)
      IN  MoveFrom(s3, d + 1, trace \o <<s1, s2, s3>>)

_move_drivers_and_handle_events(s) == MoveFrom(s, 1, <<>>)

----------------------------------------------------------------------------
(* tick(): the engine state is the record Cur of the variables.  TickRun  *)
(* runs the stages in the order of tick() and keeps the intermediate      *)
(* states.  rolls holds the values random.random() returns in the        *)
(* mutation stage, one per (driver, rule) call in the order of the loop.  *)

Cur ==
    [time |-> time, timeout |-> timeout, policy |-> policy,
     mutation_rules |-> mutation_rules,
     drivers |-> drivers, requests |-> requests, pt |-> pt,
     next_id |-> next_id,
     served_count |-> served_count, expired_count |-> expired_count,
     total_wait_time |-> total_wait_time,
     completed_deliveries |-> completed_deliveries,
     metrics_log |-> metrics_log]

(* mutant: the entry is stamped with the clock value before the increment *)
AdvanceClockLogsOldTime(s) ==
    [s EXCEPT !.time = @ + 1,
              !.metrics_log = Append(@, [time |-> s.time,
                                         served |-> s.served_count,
                                         expired |-> s.expired_count,
                                         avg_wait |-> <<0, 1>>,
                                         active_drivers |-> 0])]

(* the mutation stage of tick(): every rule of self.mutation_rules is    *)
(* applied to every driver, drivers in list order and rules in list order *)
(* per driver, at the clock value before the increment                    *)
RECURSIVE MutateFrom(_, _, _, _)
MutateFrom(s, d, k, rolls) ==
    IF d > Len(s.drivers) THEN s
    ELSE IF k > Len(s.mutation_rules) THEN MutateFrom(s, d + 1, 1, rolls)
    ELSE MutateFrom(maybe_mutate(s, d, s.mutation_rules[k], s.time,
                                 rolls[(d - 1) * Len(s.mutation_rules) + k]).s,
                    d, k + 1, rolls)

_apply_mutation_rules(s, rolls) == MutateFrom(s, 1, 1, rolls)

(* the end of tick(): the driver loop counts the active drivers, then    *)
(* self.time += 1 and the metrics_log entry;                              *)
(* avg_wait is kept as the pair <<total_wait_time, completed_deliveries>> *)
(* of its quotient (<<0, 1>> for 0.0); behaviour_counts and policy, which *)
(* no step changes, are left out of the entry                             *)
AdvanceClock(s) ==
    LET active_drivers ==
            Cardinality({d \in 1..Len(s.drivers) : s.drivers[d].status # "IDLE"})
        avg_wait == IF s.completed_deliveries > 0
                    THEN <<s.total_wait_time, s.completed_deliveries>>
                    ELSE <<0, 1>>
        now == s.time + 1
    IN  [s EXCEPT !.time = now,
                  !.metrics_log = Append(@, [time |-> now,
                                             served |-> s.served_count,
                                             expired |-> s.expired_count,
                                             avg_wait |-> avg_wait,
                                             active_drivers |-> active_drivers])]

(* the Point objects request.pickup (request.dropoff) of the requests of *)
(* self.requests, in list order, whose status is in statuses              *)
RECURSIVE SnapshotPoints(_, _, _, _)
SnapshotPoints(s, r, statuses, end) ==
    IF r > Len(s.requests) THEN <<>>
    ELSE (IF s.requests[r].status \in statuses
          THEN <<IF end = "pickup" THEN s.requests[r].pickup
                 ELSE s.requests[r].dropoff>>
          ELSE <<>>)
         \o SnapshotPoints(s, r + 1, statuses, end)

(* mutant: only the pickups of WAITING requests are listed *)
get_snapshotWaitingOnly(s) ==
    [snapshot |->
       [time |-> s.time,
        drivers |-> [d \in 1..Len(s.drivers) |->
                        [id |-> s.drivers[d].id,
                         x |-> s.pt[s.drivers[d].position].x,
                         y |-> s.pt[s.drivers[d].position].y,
                         status |-> s.drivers[d].status]],
        pickups |-> SnapshotPoints(s, 1, {"WAITING"}, "pickup"),
        dropoffs |-> SnapshotPoints(s, 1, {"PICKED"}, "dropoff"),
        statistics |-> [served_count |-> s.served_count,
                        expired_count |-> s.expired_count,
                        avg_wait |-> IF s.completed_deliveries # 0
                                     THEN <<s.total_wait_time,
                                            s.completed_deliveries>>
                                     ELSE <<0, 1>>]],
     s |-> s]

(* get_snapshot(): the returned dict and the engine state after the call; *)
(* pickups and dropoffs hold the Point objects themselves (indices into   *)
(* pt), avg_wait is the pair of its quotient (<<0, 1>> for 0.0)           *)
get_snapshot(s) ==
    [snapshot |->
       [time |-> s.time,
        drivers |-> [d \in 1..Len(s.drivers) |->
                        [id |-> s.drivers[d].id,
                         x |-> s.pt[s.drivers[d].position].x,
                         y |-> s.pt[s.drivers[d].position].y,
                         status |-> s.drivers[d].status]],
        pickups |-> SnapshotPoints(s, 1, {"WAITING", "ASSIGNED"}, "pickup"),
        dropoffs |-> SnapshotPoints(s, 1, {"PICKED"}, "dropoff"),
        statistics |-> [served_count |-> s.served_count,
                        expired_count |-> s.expired_count,
                        avg_wait |-> IF s.completed_deliveries # 0
                                     THEN <<s.total_wait_time,
                                            s.completed_deliveries>>
                                     ELSE <<0, 1>>]],
     s |-> s]

(* mutant: the mutation rules are applied before the proposals are made *)
TickRunMutatesFirst(s0, draws, mock, rolls) ==
    LET s1 == _generate_new_requests(s0, draws)
        lc0 == _update_waiting_time(s1)
        lc == [lc0 EXCEPT !.s = _apply_mutation_rules(lc0.s, rolls)]
        proposals == _propose_assignments(lc.s, lc.waiting_requests, mock)
        po == _process_offers(lc.s, proposals)
        fin == _finalize_assigments(lc.s, po.accepted)
        mv == _move_drivers_and_handle_events(fin.s)
        mu == mv.s
    IN  IF po.raised
        THEN [s |-> lc.s,
              raised |-> TRUE,
              after_lifecycle |-> lc.s,
              active |-> lc.waiting_requests,
              proposals |-> proposals,
              accepted |-> <<>>,
              calls |-> <<>>,
              after_finalize |-> lc.s,
              after_move |-> lc.s,
              after_mutation |-> lc.s,
              moves |-> <<>>,
              trace |-> <<s0, s1, lc.s>>]
        ELSE [s |-> AdvanceClock(mu),
              raised |-> FALSE,
              after_lifecycle |-> lc.s,
              active |-> lc.waiting_requests,
              proposals |-> proposals,
              accepted |-> po.accepted,
              calls |-> fin.calls,
              after_finalize |-> fin.s,
              after_move |-> mv.s,
              after_mutation |-> mu,
              moves |-> <<fin.s>> \o mv.trace,
              trace |-> <<s0, s1, lc.s>> \o fin.trace \o mv.trace]

(* an exception that leaves _process_offers leaves tick(): the stages    *)
(* after it do not run                                                    *)
TickRun(s0, draws, mock, rolls) ==
    LET s1 == _generate_new_requests(s0, draws)
        lc == _update_waiting_time(s1)
        proposals == _propose_assignments(lc.s, lc.waiting_requests, mock)
        po == _process_offers(lc.s, proposals)
        fin == _finalize_assigments(lc.s, po.accepted)
        mv == _move_drivers_and_handle_events(fin.s)
        mu == _apply_mutation_rules(mv.s, rolls)
    IN  IF po.raised
        THEN [s |-> lc.s,
              raised |-> TRUE,
              after_lifecycle |-> lc.s,
              active |-> lc.waiting_requests,
              proposals |-> proposals,
              accepted |-> <<>>,
              calls |-> <<>>,
              after_finalize |-> lc.s,
              after_move |-> lc.s,
              after_mutation |-> lc.s,
              moves |-> <<>>,
              trace |-> <<s0, s1, lc.s>>]
        ELSE [s |-> AdvanceClock(mu),
              raised |-> FALSE,
              after_lifecycle |-> lc.s,
              active |-> lc.waiting_requests,
              proposals |-> proposals,
              accepted |-> po.accepted,
              calls |-> fin.calls,
              after_finalize |-> fin.s,
              after_move |-> mv.s,
              after_mutation |-> mu,
              moves |-> <<fin.s>> \o mv.trace,
              trace |-> <<s0, s1, lc.s>> \o fin.trace \o mv.trace]

(* Observations of the last step (history variable obs) *)

RECURSIVE Dedup(_)
Dedup(seq) ==
    IF Len(seq) <= 1 THEN seq
    ELSE IF seq[1] = seq[2] THEN Dedup(Tail(seq))
    ELSE <<seq[1]>> \o Dedup(Tail(seq))

RECURSIVE RequestStatuses(_, _)
RequestStatuses(trace, r) ==
    IF trace = <<>> THEN <<>>
    ELSE (IF r <= Len(Head(trace).requests)
          THEN <<Head(trace).requests[r].status>> ELSE <<>>)
         \o RequestStatuses(Tail(trace), r)

DriverStatuses(trace, d) == [k \in 1..Len(trace) |-> trace[k].drivers[d].status]

NoPoint == Point(0 - 1, 0 - 1)

(* the call of assign_request for request r in this tick, if any *)
CallOf(calls, r) ==
    IF \E k \in 1..Len(calls) : calls[k].request = r
    THEN LET k == CHOOSE k \in 1..Len(calls) : calls[k].request = r
         IN  <<calls[k]>>
    ELSE <<>>

(* Driver.step of driver d in this tick: the target and the position     *)
(* before the call, the position after it                                 *)
StepObs(moves, d) ==
    LET before == moves[3 * (d - 1) + 1]
        after == moves[3 * (d - 1) + 2]
        destination == target_point(before, d)
    IN  [status |-> before.drivers[d].status,
         current_request |-> before.drivers[d].current_request,
         has_target |-> destination # None,
         target |-> IF destination # None THEN before.pt[destination]
                    ELSE NoPoint,
         from |-> before.pt[before.drivers[d].position],
         to |-> after.pt[after.drivers[d].position],
         speed |-> before.drivers[d].speed]

TickObs(run, old) ==
    LET rlog == [r \in 1..Len(run.s.requests) |->
                    Dedup(RequestStatuses(run.trace, r))]
        born == run.trace[2]
    IN  [op |-> IF run.raised THEN "raised" ELSE "tick",
         created |-> [r \in 1..Len(run.s.requests) |->
                         IF r <= Len(old.created) THEN old.created[r]
                         ELSE [pickup |-> born.pt[born.requests[r].pickup],
                               dropoff |-> born.pt[born.requests[r].dropoff]]],
         assigned_from |-> [r \in 1..Len(run.s.requests) |->
                               IF CallOf(run.calls, r) # <<>>
                               THEN CallOf(run.calls, r)[1].driver_position
                               ELSE IF r <= Len(old.assigned_from)
                                    THEN old.assigned_from[r]
                               ELSE NoPoint],
         offered |-> [r \in 1..Len(run.s.requests) |->
                         IF CallOf(run.calls, r) # <<>>
                         THEN CallOf(run.calls, r)[1].reward2
                         ELSE IF r <= Len(old.offered) THEN old.offered[r]
                         ELSE NoReward],
         steps |-> IF run.raised THEN <<>>
                   ELSE [d \in 1..Len(run.s.drivers) |-> StepObs(run.moves, d)],
         clock |-> run.trace[1].time,
         behaviour_before |-> [d \in 1..Len(run.s.drivers) |->
                                  run.trace[1].drivers[d].behaviour],
         at_mutation |-> run.after_move.drivers,
         offer_pt |-> run.after_lifecycle.pt,
         after_lifecycle |-> run.after_lifecycle.requests,
         active |-> run.active,
         proposals |-> run.proposals,
         accepted |-> run.accepted,
         calls |-> run.calls,
         before_finalize |-> [drivers |-> run.after_lifecycle.drivers,
                              requests |-> run.after_lifecycle.requests],
         after_finalize |-> [drivers |-> run.after_finalize.drivers,
                             requests |-> run.after_finalize.requests],
         expired_before |-> run.trace[1].expired_count,
         served_before |-> run.trace[1].served_count,
         completed_before |-> run.trace[1].completed_deliveries,
         changed_before |-> old.changed_at,
         rlog |-> rlog,
         dlog |-> [d \in 1..Len(run.s.drivers) |->
                      Dedup(DriverStatuses(run.trace, d))],
         changed_at |-> [r \in 1..Len(run.s.requests) |->
                            IF Len(rlog[r]) > 1 THEN run.trace[1].time
                            ELSE IF r <= Len(old.changed_at)
                                 THEN old.changed_at[r]
                            ELSE NoTick]]

InitObs ==
    [op |-> "init", created |-> <<>>, assigned_from |-> <<>>,
     offered |-> <<>>, steps |-> <<>>,
     clock |-> NoTick, behaviour_before |-> <<>>, at_mutation |-> <<>>,
     offer_pt |-> <<>>,
     after_lifecycle |-> <<>>,
     active |-> <<>>, proposals |-> <<>>, accepted |-> <<>>, calls |-> <<>>,
     before_finalize |-> [drivers |-> <<>>, requests |-> <<>>],
     after_finalize |-> [drivers |-> <<>>, requests |-> <<>>],
     expired_before |-> 0, served_before |-> 0, completed_before |-> 0,
     changed_before |-> <<>>,
     rlog |-> <<>>, dlog |-> <<<<"IDLE">>, <<"IDLE">>>>,
     changed_at |-> <<>>]

Install(s, o) ==
    /\ time' = s.time
    /\ timeout' = s.timeout
    /\ policy' = s.policy
    /\ mutation_rules' = s.mutation_rules
    /\ drivers' = s.drivers
    /\ requests' = s.requests
    /\ pt' = s.pt
    /\ next_id' = s.next_id
    /\ served_count' = s.served_count
    /\ expired_count' = s.expired_count
    /\ total_wait_time' = s.total_wait_time
    /\ completed_deliveries' = s.completed_deliveries
    /\ metrics_log' = s.metrics_log
    /\ obs' = o

----------------------------------------------------------------------------
(* Inputs *)

Behaviours ==
    {LazyBehaviour(0), LazyBehaviour(2), GreedyDistanceBehaviour(2),
     EarningMaxBehaviour(10)}

(* the (pickup, dropoff) coordinates the generator may draw: a trip of    *)
(* length 0, and two trips longer than one movement step                   *)
TripDraws ==
    {[pickup |-> Point(1, 0), dropoff |-> Point(1, 0)],
     [pickup |-> Point(1, 0), dropoff |-> Point(3, 0)],
     [pickup |-> Point(3, 0), dropoff |-> Point(0, 0)]}

(* the random draws of one maybe_generate call at time t *)
Draws(t) ==
    {<<>>} \cup
    (IF t <= MaxGenTime /\ 1 \in GenCounts
     THEN {<<trip>> : trip \in TripDraws}
     ELSE {})

(* two drivers; driver d's position is the Point object pt[d] *)
Fleets ==
    {<<Driver(1, 1, sp1, b1), Driver(2, 2, 1, b2)>> :
        sp1 \in Speeds, b1 \in Behaviours,
        b2 \in {LazyBehaviour(0), GreedyDistanceBehaviour(2)}}

FleetPoints == {<<Point(0, 0), p2>> : p2 \in {Point(0, 0), Point(3, 0)}}

BuiltinPolicies == {"NearestNeighborPolicy", "GlobalGreedyPolicy"}

InitEngine(policies, fleets, points, timeouts) ==
    /\ time = 0
    /\ timeout \in timeouts
    /\ policy \in policies
    /\ mutation_rules = <<>>
    /\ drivers \in fleets
    /\ pt \in points
    /\ requests = <<>>
    /\ next_id = 1
    /\ served_count = 0
    /\ expired_count = 0
    /\ total_wait_time = 0
    /\ completed_deliveries = 0
    /\ metrics_log = <<>>
    /\ obs = InitObs

Init == InitEngine(BuiltinPolicies, Fleets, FleetPoints, Timeouts)

(* an exception that left tick() ends the caller's run *)
Tick ==
    /\ time < MaxTime
    /\ obs.op # "raised"
    /\ \E draws \in Draws(time) :
         LET run == TickRun(Cur, draws, <<>>, <<>>)
         IN  Install(run.s, TickObs(run, obs))

Next == Tick

Spec == Init /\ [][Next]_vars

----------------------------------------------------------------------------
(* The engine with a user-supplied DispatchPolicy, which may return any   *)
(* list of (driver, request) pairs over the engine's objects.             *)

RECURSIVE SeqsUpTo(_, _)
SeqsUpTo(S, n) ==
    IF n = 0 THEN {<<>>}
    ELSE LET shorter == SeqsUpTo(S, n - 1)
         IN  shorter \cup {Append(q, e) : q \in shorter, e \in S}

(* lists of up to three pairs: long enough for a pair that conflicts with *)
(* a skipped pair only                                                     *)
ProposalLengths == 0..3

MockProposals(nd, nr) ==
    {q \in SeqsUpTo((1..nd) \X (1..nr), 3) : Len(q) \in ProposalLengths}

MockGenTimes == {0, 1}

(* a driver that accepts only while IDLE and one that accepts any offer  *)
(* closer than 4, whatever its status                                     *)
MockFleets ==
    {<<Driver(1, 1, 1, LazyBehaviour(0)),
       Driver(2, 2, 1, GreedyDistanceBehaviour(4))>>}

InitMock ==
    InitEngine({"MockPolicy"}, MockFleets, {<<Point(0, 0), Point(0, 0)>>}, {1})

MockTick ==
    /\ time < MockMaxTime
    /\ \E draws \in IF time \in MockGenTimes THEN Draws(time) ELSE {<<>>} :
         \E mock \in MockProposals(Len(drivers), Len(requests) + Len(draws)) :
           LET run == TickRun(Cur, draws, mock, <<>>)
           IN  Install(run.s, TickObs(run, obs))

NextMock == MockTick

SpecMock == InitMock /\ [][NextMock]_vars

----------------------------------------------------------------------------
(* The engine with a driver that was constructed without a behaviour.     *)

FaultyFleets ==
    {<<Driver(1, 1, sp1, b1), Driver(2, 2, 1, NoBehaviour)>> :
        sp1 \in Speeds, b1 \in {LazyBehaviour(0), GreedyDistanceBehaviour(2)}}

InitFaulty == InitEngine(BuiltinPolicies, FaultyFleets, FleetPoints, Timeouts)

SpecFaulty == InitFaulty /\ [][Next]_vars

----------------------------------------------------------------------------
(* The engine with mutation rules and one driver.                         *)

RuleLists ==
    {<<PerformanceBasedMutation(2, 1)>>,
     <<ExplorationMutationRule(500)>>,
     <<ExplorationMutationRule(500), PerformanceBasedMutation(2, 1)>>}

RuleFleets ==
    {<<Driver(1, 1, 1, b)>> :
        b \in {LazyBehaviour(2), GreedyDistanceBehaviour(2)}}

(* random.random() of an ExplorationMutationRule call, in thousandths *)
RuleRolls == {0, 999}

(* the rolls of one mutation stage: one per (driver, rule) call *)
RollsOf(s) ==
    {q \in SeqsUpTo(RuleRolls, 2) : Len(q) = Len(s.drivers) * Len(s.mutation_rules)}

InitRules ==
    /\ time = 0
    /\ timeout \in Timeouts
    /\ policy \in BuiltinPolicies
    /\ mutation_rules \in RuleLists
    /\ drivers \in RuleFleets
    /\ pt = <<Point(0, 0)>>
    /\ requests = <<>>
    /\ next_id = 1
    /\ served_count = 0
    /\ expired_count = 0
    /\ total_wait_time = 0
    /\ completed_deliveries = 0
    /\ metrics_log = <<>>
    /\ obs = InitObs

RulesTick ==
    /\ time < MaxTime
    /\ \E draws \in Draws(time), rolls \in RollsOf(Cur) :
         LET run == TickRun(Cur, draws, <<>>, rolls)
         IN  Install(run.s, TickObs(run, obs))

NextRules == RulesTick

SpecRules == InitRules /\ [][NextRules]_vars

----------------------------------------------------------------------------
(* The engine with a caller that takes a snapshot between ticks.          *)

SnapshotFleets ==
    {<<Driver(1, 1, 1, LazyBehaviour(0)), Driver(2, 2, 1, b2)>> :
        b2 \in {LazyBehaviour(2), GreedyDistanceBehaviour(2)}}

InitSnapshot ==
    InitEngine({"NearestNeighborPolicy"}, SnapshotFleets, FleetPoints, Timeouts)

SnapshotTick ==
    /\ time < MaxTime
    /\ \E draws \in Draws(time) :
         LET run == TickRun(Cur, draws, <<>>, <<>>)
         IN  Install(run.s, TickObs(run, obs))

(* snapshot = sim.get_snapshot(); the tick observations are kept *)
CallSnapshot ==
    /\ obs.op = "tick"
    /\ LET res == get_snapshot(Cur)
       IN  Install(res.s,
                   [k \in DOMAIN obs \cup {"snapshot", "before"} |->
                       IF k = "op" THEN "snapshot"
                       ELSE IF k = "snapshot" THEN res.snapshot
                       ELSE IF k = "before" THEN Cur
                       ELSE obs[k]])

NextSnapshot == SnapshotTick \/ CallSnapshot

SpecSnapshot == InitSnapshot /\ [][NextSnapshot]_vars

----------------------------------------------------------------------------
(* The engine constructed with a driver that was given a status and a     *)
(* current_request: Driver.__init__ stores both and sets                  *)
(* position_at_assignment to None.  The request is in the engine's        *)
(* requests list, as constructed (WAITING) or marked picked by the        *)
(* caller.                                                                *)

PresetStatuses == {"IDLE", "TO_PICKUP", "TO_DROPOFF"}

PresetRequestStatuses == {"WAITING", "PICKED"}

PresetDriver(driver_id, position, speed, behaviour, status, current_request) ==
    [Driver(driver_id, position, speed, behaviour) EXCEPT
        !.status = status, !.current_request = current_request]

InitPreset ==
    /\ time = 0
    /\ timeout \in Timeouts
    /\ policy \in BuiltinPolicies
    /\ mutation_rules = <<>>
    /\ \E status \in PresetStatuses, current_request \in {None, 1} :
         drivers = <<PresetDriver(1, 1, 1, LazyBehaviour(0), status,
                                  current_request),
                     Driver(2, 2, 1, LazyBehaviour(0))>>
    /\ \E trip \in TripDraws :
         pt = <<Point(0, 0), Point(3, 0), trip.pickup, trip.dropoff>>
    /\ \E status \in PresetRequestStatuses :
         requests = <<[Request(100, 3, 4, 0) EXCEPT !.status = status]>>
    /\ next_id = 1
    /\ served_count = 0
    /\ expired_count = 0
    /\ total_wait_time = 0
    /\ completed_deliveries = 0
    /\ metrics_log = <<>>
    /\ obs = InitObs

PresetTick ==
    /\ time <= MaxGenTime
    /\ obs.op # "raised"
    /\ \E draws \in Draws(time) :
         LET run == TickRun(Cur, draws, <<>>, <<>>)
         IN  Install(run.s, TickObs(run, obs))

NextPreset == PresetTick

SpecPreset == InitPreset /\ [][NextPreset]_vars

----------------------------------------------------------------------------
(* tick() called forever.  Requests are generated up to clock MaxGenTime; *)
(* from then on a tick of an engine whose requests are all DELIVERED or   *)
(* EXPIRED and whose drivers are all IDLE changes only the clock and the  *)
(* metrics log, so the run is followed until that point (and never past   *)
(* clock MaxTime + MaxTime).                                              *)

LiveFleets ==
    {<<Driver(1, 1, sp1, b1), Driver(2, 2, 1, LazyBehaviour(0))>> :
        sp1 \in Speeds, b1 \in {LazyBehaviour(2), GreedyDistanceBehaviour(2)}}

InitLive == InitEngine(BuiltinPolicies, LiveFleets, FleetPoints, Timeouts)

Settled(s) ==
    /\ \A r \in 1..Len(s.requests) :
          s.requests[r].status \in {"DELIVERED", "EXPIRED"}
    /\ \A d \in 1..Len(s.drivers) : s.drivers[d].status = "IDLE"

LiveTick ==
    /\ time < MaxTime + MaxTime
    /\ time <= MaxGenTime \/ ~Settled(Cur)
    /\ obs.op # "raised"
    /\ \E draws \in Draws(time) :
         LET run == TickRun(Cur, draws, <<>>, <<>>)
         IN  Install(run.s, TickObs(run, obs))

NextLive == LiveTick

(* the caller's loop: under [][NextLive]_vars a step that advances the    *)
(* clock is a step of LiveTick, and tick() ends by advancing the clock,   *)
(* so fairness of LiveTick is fairness of the clock's advance while       *)
(* LiveTick can run                                                       *)
TickCalled ==
    /\ time < MaxTime + MaxTime
    /\ time <= MaxGenTime \/ ~Settled(Cur)
    /\ obs.op # "raised"
    /\ time' = time + 1

SpecLive == InitLive /\ [][NextLive]_vars /\ WF_time(TickCalled)

----------------------------------------------------------------------------
(* The engine with one driver on the plane.  Lengths are in fifths of the *)
(* distance unit: the driver of speed 1 covers 5 a tick, the point (3,4)  *)
(* is Point(15, 20).  All points lie on the line through (0,0) and (3,4), *)
(* so every distance is a multiple of 5 and every step is integral.       *)

GridSpeeds == {5, 10}

GridTimeouts == {3, 100}

GridTrips ==
    {[pickup |-> Point(15, 20), dropoff |-> Point(15, 20)],
     [pickup |-> Point(15, 20), dropoff |-> Point(30, 40)],
     [pickup |-> Point(30, 40), dropoff |-> Point(0, 0)],
     [pickup |-> Point(15, 20), dropoff |-> Point(0, 0)]}

GridGenTimes == {0, 1}

GridDraws(t) ==
    {<<>>} \cup
    (IF t \in GridGenTimes THEN {<<trip>> : trip \in GridTrips} ELSE {})

GridFleets == {<<Driver(1, 1, sp, LazyBehaviour(0))>> : sp \in GridSpeeds}

InitGrid ==
    InitEngine(BuiltinPolicies, GridFleets, {<<Point(0, 0)>>}, GridTimeouts)

GridTick ==
    /\ time < MaxTime
    /\ \E draws \in GridDraws(time) :
         LET run == TickRun(Cur, draws, <<>>, <<>>)
         IN  Install(run.s, TickObs(run, obs))

NextGrid == GridTick

SpecGrid == InitGrid /\ [][NextGrid]_vars

----------------------------------------------------------------------------
(* DispatchPolicy.assign called directly on two drivers and up to three   *)
(* requests: the drivers are listed in either order of their ids, in any  *)
(* mix of IDLE and TO_PICKUP; obs keeps the result of the call.           *)

(* the drivers, the requests and the points they refer to *)
Entities(s) == [drivers |-> s.drivers, requests |-> s.requests, pt |-> s.pt]

PolicyDriverIds == {<<1, 2>>, <<2, 1>>}

PolicyStatuses == {"IDLE", "TO_PICKUP"}

PolicyDriverPoints ==
    {<<p1, p2>> : p1 \in {Point(0, 0), Point(2, 0)},
                  p2 \in {Point(0, 0), Point(2, 0), Point(100, 100)}}

PolicyPickups == {Point(1, 0), Point(3, 0), Point(101, 100)}

PolicyRequestCounts == 0..3

PolicyPickupLists ==
    {q \in SeqsUpTo(PolicyPickups, 3) : Len(q) \in PolicyRequestCounts}

InitPolicy ==
    /\ time = 0
    /\ timeout = 5
    /\ policy \in BuiltinPolicies
    /\ mutation_rules = <<>>
    /\ \E ids \in PolicyDriverIds, st1, st2 \in PolicyStatuses, b \in Behaviours :
         drivers = <<[Driver(ids[1], 1, 1, b) EXCEPT !.status = st1],
                     [Driver(ids[2], 2, 1, b) EXCEPT !.status = st2]>>
    /\ \E dp \in PolicyDriverPoints, pickups \in PolicyPickupLists :
         /\ pt = dp \o [k \in 1..(2 * Len(pickups)) |-> pickups[(k + 1) \div 2]]
         /\ requests = [r \in 1..Len(pickups) |->
                           Request(r, 2 * r + 1, 2 * r + 2, 0)]
    /\ next_id = Len(requests) + 1
    /\ served_count = 0
    /\ expired_count = 0
    /\ total_wait_time = 0
    /\ completed_deliveries = 0
    /\ metrics_log = <<>>
    /\ obs = [op |-> "init", raised |-> FALSE, matches |-> <<>>]

(* self.dispatch_policy.assign(drivers, requests, time) with every request *)
(* of the list                                                            *)
CallAssign ==
    /\ obs.op = "init"
    /\ LET reqs == [r \in 1..Len(requests) |-> r]
           res == IF policy = "NearestNeighborPolicy"
                  THEN NearestNeighborAssign(Cur, reqs)
                  ELSE GlobalGreedyAssign(Cur, reqs)
       IN  /\ obs' = [op |-> "assign", raised |-> res.raised,
                      matches |-> res.matches,
                      before |-> Entities(Cur), after |-> Entities(res.s),
                      drivers_before |-> DriversArg(Cur),
                      drivers_arg |-> res.drivers_arg,
                      requests_before |-> reqs,
                      requests_arg |-> res.requests_arg]
           /\ drivers' = res.s.drivers
           /\ requests' = res.s.requests
           /\ pt' = res.s.pt
    /\ UNCHANGED <<time, timeout, policy, mutation_rules, next_id,
                   served_count, expired_count, total_wait_time,
                   completed_deliveries, metrics_log>>

(* the offer _process_offers builds for a proposed pair, put to the       *)
(* driver's behaviour                                                     *)
CallDecideOnMatch ==
    /\ obs.op = "assign"
    /\ \E k \in 1..Len(obs.matches) :
         LET d == obs.matches[k][1]
             r == obs.matches[k][2]
             res == DecideCall(Cur, d, Offer(Cur, d, r), time)
         IN  /\ obs' = [op |-> "decide", raised |-> FALSE,
                        matches |-> obs.matches,
                        driver |-> d, request |-> r,
                        decision |-> res.decision,
                        before |-> Entities(Cur), after |-> Entities(res.s)]
             /\ drivers' = res.s.drivers
             /\ requests' = res.s.requests
             /\ pt' = res.s.pt
    /\ UNCHANGED <<time, timeout, policy, mutation_rules, next_id,
                   served_count, expired_count, total_wait_time,
                   completed_deliveries, metrics_log>>

NextPolicy == CallAssign \/ CallDecideOnMatch

SpecPolicy == InitPolicy /\ [][NextPolicy]_vars

----------------------------------------------------------------------------
(* DriverBehaviour.decide called directly: one driver at (0,0), one       *)
(* request, and an offer whose travel time and reward the caller chooses. *)

DecideBehaviours ==
    {LazyBehaviour(0), LazyBehaviour(2),
     GreedyDistanceBehaviour(2), GreedyDistanceBehaviour(5),
     EarningMaxBehaviour(0), EarningMaxBehaviour(10)}

DecideStatuses == {"IDLE", "TO_PICKUP", "TO_DROPOFF"}

DecidePickups == {Point(0, 0), Point(1, 0), Point(3, 3), Point(3, 4)}

DecideWaits == 0..3

(* estimated_travel_time and twice the estimated_reward (None: NoReward) *)
DecideTravelTimes == {0 - 1, 0, 1, 2}

DecideRewards == {NoReward, 20, 40}

DecideTimes == {0, 1, 2000}

InitBehaviour ==
    /\ time = 0
    /\ timeout = 5
    /\ policy = "NearestNeighborPolicy"
    /\ mutation_rules = <<>>
    /\ \E st \in DecideStatuses, b \in DecideBehaviours :
         drivers = <<[Driver(1, 1, 1, b) EXCEPT !.status = st]>>
    /\ \E pickup \in DecidePickups, w \in DecideWaits :
         /\ pt = <<Point(0, 0), pickup, pickup>>
         /\ requests = <<[Request(1, 2, 3, 0) EXCEPT !.wait_time = w]>>
    /\ next_id = 2
    /\ served_count = 0
    /\ expired_count = 0
    /\ total_wait_time = 0
    /\ completed_deliveries = 0
    /\ metrics_log = <<>>
    /\ obs = [op |-> "init"]

CallDecide ==
    /\ obs.op = "init"
    /\ \E travel \in DecideTravelTimes, reward2 \in DecideRewards,
          t \in DecideTimes :
         LET offer == [driver |-> 1, request |-> 1, travel_num |-> travel,
                       travel_den |-> 1, reward2 |-> reward2]
             res == DecideCall(Cur, 1, offer, t)
         IN  /\ obs' = [op |-> "decide", offer |-> offer, time |-> t,
                        decision |-> res.decision]
             /\ drivers' = res.s.drivers
             /\ requests' = res.s.requests
             /\ pt' = res.s.pt
    /\ UNCHANGED <<time, timeout, policy, mutation_rules, next_id,
                   served_count, expired_count, total_wait_time,
                   completed_deliveries, metrics_log>>

NextBehaviour == CallDecide

SpecBehaviour == InitBehaviour /\ [][NextBehaviour]_vars

----------------------------------------------------------------------------
(* MutationRule.maybe_mutate called directly, any number of times, on one *)
(* driver with a given behaviour and history; roll is the value of        *)
(* random.random() in the call.                                           *)

MutationBehaviours ==
    {LazyBehaviour(2), GreedyDistanceBehaviour(2), EarningMaxBehaviour(10),
     NoBehaviour}

HistoryEntries == {[served |-> 0], [served |-> 1], [earnings |-> 0]}

MutationHistories == SeqsUpTo(HistoryEntries, 3)

MutationRules ==
    {ExplorationMutationRule(p) : p \in {0, 500, 1000}}
    \cup {PerformanceBasedMutation(threshold2, N) :
              threshold2 \in {1, 2}, N \in 0..2}

Rolls == {0, 500, 999}

MutationTimes == {0, 2}

InitMutation ==
    /\ time \in MutationTimes
    /\ timeout = 5
    /\ policy = "NearestNeighborPolicy"
    /\ mutation_rules = <<>>
    /\ \E b \in MutationBehaviours, history \in MutationHistories :
         drivers = <<[Driver(1, 1, 1, b) EXCEPT !.history = history]>>
    /\ pt = <<Point(0, 0)>>
    /\ requests = <<>>
    /\ next_id = 1
    /\ served_count = 0
    /\ expired_count = 0
    /\ total_wait_time = 0
    /\ completed_deliveries = 0
    /\ metrics_log = <<>>
    /\ obs = [op |-> "init"]

CallMaybeMutate ==
    /\ \E rule \in MutationRules, roll \in Rolls :
         LET res == maybe_mutate(Cur, 1, rule, time, roll)
         IN  /\ obs' = [op |-> "mutate", rule |-> rule, roll |-> roll,
                        before |-> drivers[1].behaviour,
                        assigned |-> res.assigned]
             /\ drivers' = res.s.drivers
    /\ UNCHANGED <<time, timeout, policy, mutation_rules, requests, pt, next_id,
                   served_count, expired_count, total_wait_time,
                   completed_deliveries, metrics_log>>

NextMutation == CallMaybeMutate

SpecMutation == InitMutation /\ [][NextMutation]_vars

----------------------------------------------------------------------------
(* The Request methods called directly, in any order and in any status:   *)
(* one Request object, requests[1]; obs keeps the call and the request as *)
(* it was before the call.                                                *)

CallTimes == 0..3

CallDriverIds == {1, 2}

InitRequest ==
    /\ time = 0
    /\ timeout = 0
    /\ policy = "NoPolicy"
    /\ mutation_rules = <<>>
    /\ drivers = <<>>
    /\ pt = <<Point(1, 0), Point(3, 0)>>
    /\ \E c \in {0, 1} : requests = <<Request(1, 1, 2, c)>>
    /\ next_id = 1
    /\ served_count = 0
    /\ expired_count = 0
    /\ total_wait_time = 0
    /\ completed_deliveries = 0
    /\ metrics_log = <<>>
    /\ obs = [op |-> "Request", pre |-> requests[1], arg |-> 0]

Called(op, arg, req) ==
    /\ requests' = <<req>>
    /\ obs' = [op |-> op, pre |-> requests[1], arg |-> arg]
    /\ UNCHANGED <<time, timeout, policy, mutation_rules, drivers, pt, next_id, served_count,
                   expired_count, total_wait_time, completed_deliveries,
                   metrics_log>>

CallMarkAssigned ==
    \E id \in CallDriverIds :
        Called("mark_assigned", id, mark_assigned(requests[1], id))

CallMarkPicked ==
    \E t \in CallTimes : Called("mark_picked", t, mark_picked(requests[1], t))

CallMarkDelivered ==
    \E t \in CallTimes :
        Called("mark_delivered", t, mark_delivered(requests[1], t))

CallMarkExpired ==
    \E t \in CallTimes : Called("mark_expired", t, mark_expired(requests[1], t))

CallUpdateWait ==
    \E t \in CallTimes : Called("update_wait", t, update_wait(requests[1], t))

NextRequest ==
    \/ CallMarkAssigned
    \/ CallMarkPicked
    \/ CallMarkDelivered
    \/ CallMarkExpired
    \/ CallUpdateWait

SpecRequest == InitRequest /\ [][NextRequest]_vars

----------------------------------------------------------------------------
(* Properties *)

ReqIdx == 1..Len(requests)

DrvIdx == 1..Len(drivers)

Held == {"ASSIGNED", "PICKED"}

(* C1: with a built-in policy and drivers starting IDLE, no request is the *)
(* current_request of two drivers and no driver id is the                 *)
(* assigned_driver_id of two requests that are ASSIGNED or PICKED.        *)
NoDoubleAssignment ==
    /\ \A d1, d2 \in DrvIdx :
         d1 # d2 /\ drivers[d1].current_request # None
            => drivers[d1].current_request # drivers[d2].current_request
    /\ \A r1, r2 \in ReqIdx :
         /\ r1 # r2
         /\ requests[r1].status \in Held
         /\ requests[r2].status \in Held
         => requests[r1].assigned_driver_id # requests[r2].assigned_driver_id

BothDriversBusy ==
    /\ drivers[1].current_request # None
    /\ drivers[2].current_request # None
    /\ \E r1, r2 \in ReqIdx :
         /\ r1 # r2
         /\ requests[r1].status \in Held
         /\ requests[r2].status \in Held

LifecycleEdges ==
    {<<"WAITING", "ASSIGNED">>, <<"ASSIGNED", "PICKED">>,
     <<"PICKED", "DELIVERED">>, <<"WAITING", "EXPIRED">>}

(* C2: every status change of a request during a tick is one of           *)
(* WAITING->ASSIGNED, ASSIGNED->PICKED, PICKED->DELIVERED,                *)
(* WAITING->EXPIRED, and a request starts WAITING; so an ASSIGNED or      *)
(* PICKED request never becomes EXPIRED or WAITING and a DELIVERED or     *)
(* EXPIRED request never changes.                                         *)
MonotonicLifecycle ==
    obs.op = "tick" =>
      \A r \in DOMAIN obs.rlog :
        /\ r > Len(obs.changed_before) => obs.rlog[r][1] = "WAITING"
        /\ \A k \in 1..(Len(obs.rlog[r]) - 1) :
             <<obs.rlog[r][k], obs.rlog[r][k + 1]>> \in LifecycleEdges

DeliveredAndExpired ==
    /\ obs.op = "tick"
    /\ \E r \in ReqIdx : obs.rlog[r] = <<"WAITING", "ASSIGNED", "PICKED", "DELIVERED">>
    /\ \E r \in ReqIdx : obs.rlog[r] = <<"WAITING", "EXPIRED">>

(* C3: a request never assigned is WAITING after every tick with clock    *)
(* value t, t - creation_time <= timeout, and is EXPIRED from the tick    *)
(* with clock creation_time + timeout + 1 on, marked in that tick and     *)
(* counted once; with creation_time 0 and timeout 5 it is EXPIRED with    *)
(* expired_count = 1 once the tick with clock value 6 has run.            *)
ExpiryThreshold ==
    /\ \A r \in ReqIdx :
         requests[r].assigned_driver_id = None =>
           IF (time - 1) - requests[r].creation_time <= timeout
           THEN requests[r].status = "WAITING"
           ELSE /\ requests[r].status = "EXPIRED"
                /\ obs.changed_at[r] = requests[r].creation_time + timeout + 1
                /\ requests[r].wait_time = timeout + 1
    /\ expired_count <= Cardinality({r \in ReqIdx : requests[r].status = "EXPIRED"})
    /\ (/\ timeout = 5
        /\ time >= 7
        /\ Len(requests) = 1
        /\ requests[1].creation_time = 0
        /\ requests[1].assigned_driver_id = None)
       => requests[1].status = "EXPIRED" /\ expired_count = 1

ExpiredAtSix ==
    /\ timeout = 5
    /\ time = 7
    /\ Len(requests) = 1
    /\ requests[1].creation_time = 0
    /\ requests[1].status = "EXPIRED"
    /\ obs.changed_at[1] = 6
    /\ expired_count = 1

Accepted == obs.accepted

CalledIdx == {obs.calls[k].index : k \in 1..Len(obs.calls)}

SharesMember(p, q) == p[1] = q[1] \/ p[2] = q[2]

AllFree ==
    \A i \in 1..Len(Accepted) :
        /\ obs.before_finalize.drivers[Accepted[i][1]].status = "IDLE"
        /\ obs.before_finalize.requests[Accepted[i][2]].status = "WAITING"

(* C4: over an accepted list of IDLE drivers and WAITING requests,        *)
(* finalisation assigns a pair exactly when no earlier assigned pair of   *)
(* the list has its driver or its request; an assigned driver holds the   *)
(* request of its pair, and a driver or request of skipped pairs only is  *)
(* as it was before finalisation.                                         *)
FirstComeFirstServed ==
    (obs.op = "tick" /\ AllFree) =>
      /\ \A i \in 1..Len(Accepted) :
           i \in CalledIdx <=>
             ~\E j \in CalledIdx : j < i /\ SharesMember(Accepted[j], Accepted[i])
      /\ \A i \in CalledIdx :
           /\ obs.after_finalize.drivers[Accepted[i][1]].current_request
                = Accepted[i][2]
           /\ obs.after_finalize.requests[Accepted[i][2]].status = "ASSIGNED"
           /\ obs.after_finalize.requests[Accepted[i][2]].assigned_driver_id
                = obs.before_finalize.drivers[Accepted[i][1]].id
      /\ \A d \in DOMAIN obs.before_finalize.drivers :
           (~\E i \in CalledIdx : Accepted[i][1] = d)
             => obs.after_finalize.drivers[d] = obs.before_finalize.drivers[d]
      /\ \A r \in DOMAIN obs.before_finalize.requests :
           (~\E i \in CalledIdx : Accepted[i][2] = r)
             => obs.after_finalize.requests[r] = obs.before_finalize.requests[r]

ConflictChain ==
    /\ obs.op = "tick"
    /\ AllFree
    /\ Len(Accepted) = 3
    /\ Accepted[1][2] = Accepted[2][2]
    /\ Accepted[1][1] # Accepted[2][1]
    /\ Accepted[2][1] = Accepted[3][1]
    /\ Accepted[2][2] # Accepted[3][2]
    /\ CalledIdx = {1, 3}
    /\ obs.after_finalize.drivers[Accepted[2][1]].current_request = Accepted[3][2]

(* C5: finalisation calls assign_request only for a pair whose request is *)
(* WAITING and whose driver is IDLE at that moment.                       *)
FinalizeOnlyFree ==
    obs.op = "tick" =>
      \A k \in 1..Len(obs.calls) :
        /\ obs.calls[k].request_status = "WAITING"
        /\ obs.calls[k].driver_status = "IDLE"

DriverEdges ==
    {<<"IDLE", "TO_PICKUP">>, <<"TO_PICKUP", "TO_DROPOFF">>,
     <<"TO_DROPOFF", "IDLE">>}

(* C6: between ticks a driver has a current_request iff it is not IDLE,   *)
(* it is the assigned driver of at most one ASSIGNED or PICKED request,   *)
(* and each status change it made in the tick is an edge of the cycle     *)
(* IDLE -> TO_PICKUP -> TO_DROPOFF -> IDLE.                               *)
DriverCycle ==
    \A d \in DrvIdx :
      /\ drivers[d].current_request # None <=> drivers[d].status # "IDLE"
      /\ Cardinality({r \in ReqIdx :
                        /\ requests[r].status \in Held
                        /\ requests[r].assigned_driver_id = drivers[d].id})
           = (IF drivers[d].status = "IDLE" THEN 0 ELSE 1)
      /\ \A k \in 1..(Len(obs.dlog[d]) - 1) :
           <<obs.dlog[d][k], obs.dlog[d][k + 1]>> \in DriverEdges

SecondTripUnderWay ==
    \E d \in DrvIdx :
      /\ drivers[d].status = "TO_DROPOFF"
      /\ drivers[d].current_request # None
      /\ Len(drivers[d].history) >= 1
      /\ obs.dlog[d] = <<"IDLE", "TO_PICKUP", "TO_DROPOFF">>

(* C7: a mark_* call changes the request only from the status it is for  *)
(* (mark_assigned: WAITING, mark_picked: ASSIGNED, mark_delivered:        *)
(* PICKED, mark_expired: WAITING); in any other status it leaves the      *)
(* request unchanged.                                                     *)
MarkGuarded ==
    LET from == [mark_assigned |-> "WAITING", mark_picked |-> "ASSIGNED",
                 mark_delivered |-> "PICKED", mark_expired |-> "WAITING"]
    IN  (obs.op \in DOMAIN from /\ obs.pre.status # from[obs.op])
          => requests[1] = obs.pre

FrozenWait ==
    \A r \in ReqIdx :
      requests[r].status \in {"PICKED", "DELIVERED", "EXPIRED"}
        => requests[r].wait_time = obs.changed_at[r] - requests[r].creation_time

(* C8 as stated: right after the lifecycle-update stage every WAITING or  *)
(* ASSIGNED request has wait_time = clock - creation_time, and a PICKED,  *)
(* DELIVERED or EXPIRED request keeps the wait_time of the tick of that   *)
(* transition.                                                            *)
WaitTracksClock ==
    obs.op = "tick" =>
      /\ \A r \in DOMAIN obs.after_lifecycle :
           obs.after_lifecycle[r].status \in {"WAITING", "ASSIGNED"}
             => obs.after_lifecycle[r].wait_time
                  = obs.clock - obs.after_lifecycle[r].creation_time
      /\ FrozenWait

(* C8 amended: right after the lifecycle-update stage every WAITING       *)
(* request has wait_time = clock - creation_time, an ASSIGNED request     *)
(* still has the wait_time of the tick in which it was assigned, and a    *)
(* PICKED, DELIVERED or EXPIRED request keeps the wait_time of the tick   *)
(* of that transition.                                                    *)
WaitTracksClockWhileWaiting ==
    obs.op = "tick" =>
      /\ \A r \in DOMAIN obs.after_lifecycle :
           /\ obs.after_lifecycle[r].status = "WAITING"
                => obs.after_lifecycle[r].wait_time
                     = obs.clock - obs.after_lifecycle[r].creation_time
           /\ obs.after_lifecycle[r].status = "ASSIGNED"
                => obs.after_lifecycle[r].wait_time
                     = obs.changed_before[r] - obs.after_lifecycle[r].creation_time
      /\ \A r \in ReqIdx :
           requests[r].status = "ASSIGNED"
             => requests[r].wait_time
                  = obs.changed_at[r] - requests[r].creation_time
      /\ FrozenWait

StaleAssignedWait ==
    /\ obs.op = "tick"
    /\ \E r \in DOMAIN obs.after_lifecycle :
         /\ obs.after_lifecycle[r].status = "ASSIGNED"
         /\ obs.after_lifecycle[r].wait_time
              < obs.clock - obs.after_lifecycle[r].creation_time
         /\ requests[r].status = "PICKED"

Delivered == {r \in ReqIdx : requests[r].status = "DELIVERED"}

RECURSIVE DeliveryWaits(_)
DeliveryWaits(r) ==
    IF r = 0 THEN 0
    ELSE (IF requests[r].status = "DELIVERED"
          THEN obs.changed_at[r] - requests[r].creation_time ELSE 0)
         + DeliveryWaits(r - 1)

(* C9: between ticks served_count = completed_deliveries = the number of  *)
(* DELIVERED requests, and total_wait_time = the sum over them of         *)
(* (clock of the delivery tick - creation_time).                          *)
ServedStatistics ==
    /\ served_count = Cardinality(Delivered)
    /\ completed_deliveries = served_count
    /\ total_wait_time = DeliveryWaits(Len(requests))

TwoServedLate ==
    /\ served_count = 2
    /\ total_wait_time >= 3
    /\ \E r \in Delivered : obs.rlog[r] = <<"PICKED", "DELIVERED">>

(* C10: between ticks expired_count is the number of EXPIRED requests; a  *)
(* tick adds one for each request that was WAITING with                   *)
(* clock - creation_time > timeout in its lifecycle-update stage, and no  *)
(* request that stays WAITING has waited longer than timeout.             *)
ExpiredStatistics ==
    /\ expired_count = Cardinality({r \in ReqIdx : requests[r].status = "EXPIRED"})
    /\ obs.op = "tick" =>
         /\ expired_count - obs.expired_before
              = Cardinality({r \in ReqIdx : obs.rlog[r] = <<"WAITING", "EXPIRED">>})
         /\ \A r \in ReqIdx :
              /\ obs.rlog[r] = <<"WAITING", "EXPIRED">>
                   => obs.clock - requests[r].creation_time > timeout
              /\ obs.after_lifecycle[r].status = "WAITING"
                   => obs.clock - requests[r].creation_time <= timeout

TwoExpired ==
    /\ expired_count = 2
    /\ obs.op = "tick"
    /\ expired_count - obs.expired_before = 1
    /\ \E r \in ReqIdx : requests[r].status = "DELIVERED"

RECURSIVE HistoryRecords(_)
HistoryRecords(d) ==
    IF d = 0 THEN 0 ELSE Len(drivers[d].history) + HistoryRecords(d - 1)

DeliveredInStep(d) ==
    {r \in 1..Len(requests') :
        /\ requests'[r].status = "DELIVERED"
        /\ r <= Len(requests) => requests[r].status # "DELIVERED"
        /\ requests'[r].assigned_driver_id = drivers[d].id}

HistoryStep ==
    \A d \in DrvIdx :
      LET old == drivers[d].history
          new == drivers'[d].history
          added == SubSeq(new, Len(old) + 1, Len(new))
      IN  /\ Len(new) >= Len(old)
          /\ SubSeq(new, 1, Len(old)) = old
          /\ Len(added) = Cardinality(DeliveredInStep(d))
          /\ \A k \in 1..Len(added) :
               /\ added[k].driver_id = drivers[d].id
               /\ added[k].completion_time = time
               /\ \E r \in DeliveredInStep(d) :
                    requests'[r].id = added[k].request_id

(* C11: a tick keeps every driver's history as a prefix and appends to it *)
(* one record for each request the driver delivered in the tick, with the *)
(* request's id and completion_time = the tick's clock value; the number  *)
(* of records over all drivers is always served_count.                    *)
HistoryMatchesDeliveries ==
    /\ [](HistoryRecords(Len(drivers)) = served_count)
    /\ [][HistoryStep]_vars

TwoTripsRecorded ==
    \E d \in DrvIdx :
      /\ Len(drivers[d].history) = 2
      /\ drivers[d].history[2].completion_time = time - 1
      /\ drivers[d].history[1].request_id # drivers[d].history[2].request_id
      /\ served_count >= 2

RequestOfId(id) == CHOOSE r \in ReqIdx : requests[r].id = id

(* C12: every TripRecord's total_distance is distance(the driver's        *)
(* position when assign_request was called, pickup) + distance(pickup,    *)
(* dropoff), and position_at_assignment has the coordinates of that       *)
(* moment for as long as it is set.                                       *)
TripDistanceFromAssignment ==
    \A d \in DrvIdx :
      /\ \A k \in 1..Len(drivers[d].history) :
           LET r == RequestOfId(drivers[d].history[k].request_id)
           IN  drivers[d].history[k].total_distance
                 = distance_to(obs.assigned_from[r], obs.created[r].pickup)
                   + distance_to(obs.created[r].pickup, obs.created[r].dropoff)
      /\ drivers[d].position_at_assignment # None
           => pt[drivers[d].position_at_assignment]
                = obs.assigned_from[drivers[d].current_request]

(* C14: the pickup and dropoff of every request have the coordinates they *)
(* were created with.                                                     *)
RequestPointsFixed ==
    \A r \in ReqIdx :
      /\ pt[requests[r].pickup] = obs.created[r].pickup
      /\ pt[requests[r].dropoff] = obs.created[r].dropoff

(* C13: a driver on a trip has assigned_reward = the estimated_reward of  *)
(* the offer it accepted (15 + 1.5 * total distance; obs.offered is twice *)
(* that), and the earnings of every TripRecord are that reward.           *)
RewardFollowsOffer ==
    \A d \in DrvIdx :
      /\ drivers[d].current_request # None
           => 2 * drivers[d].assigned_reward
                = obs.offered[drivers[d].current_request]
      /\ \A k \in 1..Len(drivers[d].history) :
           2 * drivers[d].history[k].earnings
             = obs.offered[RequestOfId(drivers[d].history[k].request_id)]

(* C15: a step with a target at distance dist ends on the target when     *)
(* dist <= speed * dt, and otherwise speed * dt further on the straight   *)
(* line to the target, dist - speed * dt away from it; a step with no     *)
(* target (IDLE, or no current request) leaves the position as it was.    *)
StepNeverOvershoots ==
    obs.op = "tick" =>
      \A d \in DOMAIN obs.steps :
        LET st == obs.steps[d]
            dist == distance_to(st.from, st.target)
            movement == st.speed * 1
        IN  /\ (st.status = "IDLE" \/ st.current_request = None)
                 => ~st.has_target
            /\ IF ~st.has_target THEN st.to = st.from
               ELSE IF dist <= movement THEN st.to = st.target
               ELSE /\ distance_to(st.to, st.target) = dist - movement
                    /\ distance_to(st.from, st.to) = movement
                    /\ (st.target.x - st.from.x) * (st.to.y - st.from.y)
                         = (st.target.y - st.from.y) * (st.to.x - st.from.x)

PartialStepThenSnap ==
    /\ obs.op = "tick"
    /\ obs.steps[1].has_target
    /\ obs.steps[1].speed = 10
    /\ obs.steps[1].from = Point(6, 8)
    /\ obs.steps[1].target = Point(15, 20)
    /\ obs.steps[1].to = Point(12, 16)
    /\ distance_to(obs.steps[1].to, obs.steps[1].target) < obs.steps[1].speed

Scenario1 ==
    /\ policy = "NearestNeighborPolicy"
    /\ timeout = 100
    /\ Len(drivers) = 1
    /\ drivers[1].speed = 5
    /\ drivers[1].behaviour = LazyBehaviour(0)
    /\ Len(requests) = 1
    /\ requests[1].creation_time = 0
    /\ obs.created[1] = [pickup |-> Point(15, 20), dropoff |-> Point(15, 20)]

(* C16: one driver at (0,0) with speed 1 and LazyBehaviour(0), one        *)
(* request created at time 0 with pickup = dropoff = (3,4), timeout 100,  *)
(* NearestNeighborPolicy: the request is assigned in the first tick and   *)
(* the driver moves in it, it reaches the pickup in the 5th tick, pickup  *)
(* and delivery happen in that tick, served_count is 0 after 4 ticks and  *)
(* 1 after 5.                                                             *)
PickupInFiveTicks ==
    Scenario1 =>
      /\ time \in 1..4
           => /\ requests[1].status = "ASSIGNED"
              /\ obs.assigned_from[1] = Point(0, 0)
              /\ drivers[1].status = "TO_PICKUP"
              /\ pt[drivers[1].position] = Point(3 * time, 4 * time)
              /\ served_count = 0
      /\ time = 1 => obs.rlog[1] = <<"WAITING", "ASSIGNED">>
      /\ time = 5 => obs.rlog[1] = <<"ASSIGNED", "PICKED", "DELIVERED">>
      /\ time >= 5
           => /\ requests[1].status = "DELIVERED"
              /\ obs.changed_at[1] = 4
              /\ pt[drivers[1].position] = Point(15, 20)
              /\ drivers[1].status = "IDLE"
              /\ served_count = 1

DeliveredInFifthTick ==
    /\ Scenario1
    /\ time = 5
    /\ served_count = 1
    /\ obs.rlog[1] = <<"ASSIGNED", "PICKED", "DELIVERED">>

MetricsStep ==
    /\ time' = time + 1
    /\ Len(metrics_log') = Len(metrics_log) + 1
    /\ SubSeq(metrics_log', 1, Len(metrics_log)) = metrics_log
    /\ metrics_log'[Len(metrics_log')].time = time'
    /\ metrics_log'[Len(metrics_log')].served = served_count'
    /\ metrics_log'[Len(metrics_log')].expired = expired_count'

(* C17: every tick adds 1 to time and appends one metrics_log entry with  *)
(* the new clock value and the served_count and expired_count of the end  *)
(* of the tick; after n ticks time = n = Len(metrics_log) and entry i has *)
(* time i.                                                                *)
ClockAndMetrics ==
    /\ [](/\ Len(metrics_log) = time
          /\ \A i \in 1..Len(metrics_log) : metrics_log[i].time = i)
    /\ [][MetricsStep]_vars

MetricsOfServedAndExpired ==
    /\ time >= 3
    /\ Len(metrics_log) = time
    /\ metrics_log[time].served >= 1
    /\ metrics_log[time].expired >= 1
    /\ metrics_log[1].served = 0
    /\ metrics_log[1].expired = 0

RECURSIVE WaitingFrom(_, _)
WaitingFrom(reqs, r) ==
    IF r > Len(reqs) THEN <<>>
    ELSE (IF reqs[r].status = "WAITING" THEN <<r>> ELSE <<>>)
         \o WaitingFrom(reqs, r + 1)

(* C18: the list handed to dispatch_policy.assign in a tick is the list   *)
(* of the requests that are WAITING after the tick's expiry step, those   *)
(* generated in the tick included; none of them has waited longer than    *)
(* timeout.                                                               *)
PolicySeesWaitingOnly ==
    obs.op = "tick" =>
      /\ obs.active = WaitingFrom(obs.after_lifecycle, 1)
      /\ \A k \in 1..Len(obs.active) :
           /\ obs.after_lifecycle[obs.active[k]].status = "WAITING"
           /\ obs.after_lifecycle[obs.active[k]].wait_time <= timeout

NewAmongHeldAndExpired ==
    /\ obs.op = "tick"
    /\ \E k \in 1..Len(obs.active) :
         obs.after_lifecycle[obs.active[k]].creation_time = obs.clock
    /\ \E r \in DOMAIN obs.after_lifecycle :
         /\ obs.after_lifecycle[r].status = "EXPIRED"
         /\ obs.rlog[r] = <<"WAITING", "EXPIRED">>
    /\ \E r \in DOMAIN obs.after_lifecycle :
         obs.after_lifecycle[r].status \in {"ASSIGNED", "PICKED"}

(* C19: a tick in which a strategy raises still runs all its stages and   *)
(* adds 1 to time: the exception counts as no proposals, a rejection or   *)
(* no mutation.                                                           *)
StrategyErrorsContained ==
    obs.op \in {"tick", "raised"} =>
      /\ obs.op = "tick"
      /\ time = obs.clock + 1
      /\ Len(metrics_log) = time

(* C20: the list GlobalGreedyPolicy.assign returns has no driver twice,   *)
(* no request twice, and only drivers that are IDLE.                      *)
GlobalGreedyValid ==
    (obs.op = "tick" /\ policy = "GlobalGreedyPolicy") =>
      /\ \A i, j \in 1..Len(obs.proposals) :
           i # j => /\ obs.proposals[i][1] # obs.proposals[j][1]
                    /\ obs.proposals[i][2] # obs.proposals[j][2]
      /\ \A i \in 1..Len(obs.proposals) :
           obs.before_finalize.drivers[obs.proposals[i][1]].status = "IDLE"

GreedyMatchesBothDrivers ==
    /\ obs.op = "tick"
    /\ policy = "GlobalGreedyPolicy"
    /\ Len(obs.proposals) = 2
    /\ Len(obs.active) = 2

IdleDrivers == {d \in DrvIdx : drivers[d].status = "IDLE"}

Dist(d, r) == distance_to(pt[drivers[d].position], pt[requests[r].pickup])

(* the candidate pairs in ascending order of (distance, driver id,        *)
(* request id), swept greedily                                            *)
KeyLess(a, b) ==
    \/ Dist(a[1], a[2]) < Dist(b[1], b[2])
    \/ /\ Dist(a[1], a[2]) = Dist(b[1], b[2])
       /\ \/ drivers[a[1]].id < drivers[b[1]].id
          \/ drivers[a[1]].id = drivers[b[1]].id
             /\ requests[a[2]].id < requests[b[2]].id

RECURSIVE SweepByKey(_, _)
SweepByKey(ds, rs) ==
    IF ds = {} \/ rs = {} THEN <<>>
    ELSE LET best == CHOOSE a \in ds \X rs :
                         \A b \in ds \X rs : a = b \/ KeyLess(a, b)
         IN  <<best>> \o SweepByKey(ds \ {best[1]}, rs \ {best[2]})

(* C21: GlobalGreedyPolicy.assign returns the matching of the greedy      *)
(* sweep over the candidate pairs in ascending (distance, driver id,      *)
(* request id), also when distances are equal.                            *)
GreedyOrderedByIds ==
    (obs.op = "assign" /\ policy = "GlobalGreedyPolicy") =>
      /\ ~obs.raised
      /\ obs.matches = SweepByKey(IdleDrivers, ReqIdx)

PairsBefore(m, k) == {m[j] : j \in 1..(k - 1)}

FreeDrivers(m, k) == IdleDrivers \ {a[1] : a \in PairsBefore(m, k)}

FreeRequests(m, k) == ReqIdx \ {a[2] : a \in PairsBefore(m, k)}

Scenario3 ==
    /\ \A d \in DrvIdx : drivers[d].status = "IDLE"
    /\ pt[drivers[1].position] = Point(0, 0)
    /\ pt[drivers[2].position] = Point(100, 100)
    /\ Len(requests) = 2
    /\ pt[requests[1].pickup] = Point(1, 0)
    /\ pt[requests[2].pickup] = Point(101, 100)

(* C22: every pair GlobalGreedyPolicy.assign returns has the smallest     *)
(* distance among the IDLE drivers and the requests that no earlier pair  *)
(* of the result uses; with drivers at (0,0) and (100,100) and pickups at *)
(* (1,0) and (101,100) each driver gets the request next to it, and a     *)
(* list with idle drivers and requests yields at least one pair.          *)
GreedyPicksNearest ==
    (obs.op = "assign" /\ policy = "GlobalGreedyPolicy" /\ ~obs.raised) =>
      /\ \A k \in 1..Len(obs.matches) :
            /\ obs.matches[k][1] \in FreeDrivers(obs.matches, k)
            /\ obs.matches[k][2] \in FreeRequests(obs.matches, k)
            /\ \A d \in FreeDrivers(obs.matches, k),
                  r \in FreeRequests(obs.matches, k) :
                  Dist(obs.matches[k][1], obs.matches[k][2]) <= Dist(d, r)
      /\ Scenario3 => obs.matches = << <<1, 1>>, <<2, 2>> >>
      /\ (IdleDrivers # {} /\ ReqIdx # {}) => Len(obs.matches) >= 1

GreedyPairsNearInScenario3 ==
    /\ obs.op = "assign"
    /\ policy = "GlobalGreedyPolicy"
    /\ Scenario3
    /\ obs.matches = << <<1, 1>>, <<2, 2>> >>

(* C23: every pair NearestNeighborPolicy.assign returns has the smallest  *)
(* distance among the idle drivers and requests unmatched when it is      *)
(* selected, no driver or request occurs twice, and among pairs of equal  *)
(* distance the first in scan order (drivers in list order, then requests *)
(* in list order) is taken.                                               *)
NearestFirstInScanOrder ==
    (obs.op = "assign" /\ policy = "NearestNeighborPolicy") =>
      /\ ~obs.raised
      /\ \A k \in 1..Len(obs.matches) :
            LET best == obs.matches[k]
            IN  /\ best[1] \in FreeDrivers(obs.matches, k)
                /\ best[2] \in FreeRequests(obs.matches, k)
                /\ \A d \in FreeDrivers(obs.matches, k),
                      r \in FreeRequests(obs.matches, k) :
                      \/ Dist(best[1], best[2]) < Dist(d, r)
                      \/ /\ Dist(best[1], best[2]) = Dist(d, r)
                         /\ \/ best[1] < d
                            \/ best[1] = d /\ best[2] <= r

NearestTieTakesFirst ==
    /\ obs.op = "assign"
    /\ policy = "NearestNeighborPolicy"
    /\ IdleDrivers = DrvIdx
    /\ Len(requests) = 2
    /\ \A d \in DrvIdx, r \in ReqIdx : Dist(d, r) = 1
    /\ obs.matches = << <<1, 1>>, <<2, 2>> >>

SquaredPickupDistance ==
    LET a == pt[drivers[1].position]
        b == pt[requests[1].pickup]
    IN  (a.x - b.x) * (a.x - b.x) + (a.y - b.y) * (a.y - b.y)

(* C25: GreedyDistanceBehaviour.decide returns True exactly when the      *)
(* distance from the driver's position to the pickup is strictly below    *)
(* max_distance; a pickup at distance 5 with max_distance 5 is refused.   *)
GreedyDistanceStrictlyBelow ==
    (obs.op = "decide" /\ drivers[1].behaviour.kind = "GreedyDistanceBehaviour") =>
      obs.decision =
        (SquaredPickupDistance
           < drivers[1].behaviour.param * drivers[1].behaviour.param)

RefusedAtExactlyFive ==
    /\ obs.op = "decide"
    /\ drivers[1].behaviour = GreedyDistanceBehaviour(5)
    /\ pt[drivers[1].position] = Point(0, 0)
    /\ pt[requests[1].pickup] = Point(3, 4)
    /\ ~obs.decision

RatioReaches(t) ==
    obs.offer.reward2 * 2000
      >= 2 * obs.offer.travel_num * drivers[1].behaviour.param * (2000 + t)

(* C27: EarningMaxBehaviour.decide returns True exactly when the reward   *)
(* is not None, the travel time is positive and reward / travel_time is   *)
(* at least min_ratio * (1 + 0.0005 * time); and for min_ratio > 0 an     *)
(* offer refused at one time is refused at every later time.              *)
EarningMaxThreshold ==
    (obs.op = "decide" /\ drivers[1].behaviour.kind = "EarningMaxBehaviour") =>
      /\ obs.decision =
           (/\ obs.offer.reward2 # NoReward
            /\ obs.offer.travel_num > 0
            /\ RatioReaches(obs.time))
      /\ (~obs.decision /\ drivers[1].behaviour.param > 0) =>
           \A later \in DecideTimes :
               later > obs.time =>
                 ~DecideCall(Cur, 1, obs.offer, later).decision

EarningMaxRefusesLater ==
    /\ obs.op = "decide"
    /\ drivers[1].behaviour = EarningMaxBehaviour(10)
    /\ obs.offer.reward2 = 40
    /\ obs.offer.travel_num = 2
    /\ obs.time = 1
    /\ ~obs.decision
    /\ DecideCall(Cur, 1, obs.offer, 0).decision

(* the roll is below min(1, base_probability * (1 + 0.0005 * time)) *)
ExplorationTriggered ==
    /\ obs.op = "mutate"
    /\ obs.rule.kind = "ExplorationMutationRule"
    /\ obs.roll * 2000 < obs.rule.probability * (2000 + time)
    /\ obs.roll < 1000

(* C28: when ExplorationMutationRule triggers, a LazyBehaviour driver     *)
(* gets GreedyDistanceBehaviour(max_distance=10), a                       *)
(* GreedyDistanceBehaviour driver gets EarningMaxBehaviour(min_ratio=1.0) *)
(* and a driver with any other behaviour gets LazyBehaviour(min_wait=5).  *)
ExplorationCyclesThree ==
    ExplorationTriggered =>
      drivers[1].behaviour =
        IF obs.before.kind = "LazyBehaviour" THEN GreedyDistanceBehaviour(10)
        ELSE IF obs.before.kind = "GreedyDistanceBehaviour"
             THEN EarningMaxBehaviour(1)
        ELSE LazyBehaviour(5)

(* C29: when ExplorationMutationRule.maybe_mutate triggers on a driver    *)
(* with GreedyDistanceBehaviour, the driver's behaviour afterwards is a   *)
(* LazyBehaviour.                                                         *)
GreedyBecomesLazy ==
    (ExplorationTriggered /\ obs.before.kind = "GreedyDistanceBehaviour") =>
      drivers[1].behaviour.kind = "LazyBehaviour"

(* the "served" values among the last N entries of the history *)
RecentServed ==
    LET history == drivers[1].history
        N == obs.rule.N
    IN  IF Len(history) < N THEN <<>>
        ELSE ServedCounts([k \in 1..N |-> history[Len(history) - N + k]])

RecentEarnings(history, N) ==
    [k \in 1..N |-> history[Len(history) - N + k].earnings]

(* C31: in an engine run with PerformanceBasedMutation(threshold, N)      *)
(* among the rules, a driver with at least N TripRecords whose average    *)
(* earnings over the last N is below threshold at the mutation stage has  *)
(* GreedyDistanceBehaviour(max_distance=10) after that tick.              *)
LowEarningsMutate ==
    obs.op = "tick" =>
      \A d \in DrvIdx, k \in 1..Len(mutation_rules) :
          LET rule == mutation_rules[k]
              history == obs.at_mutation[d].history
          IN  (/\ rule.kind = "PerformanceBasedMutation"
               /\ rule.N > 0
               /\ Len(history) >= rule.N
               /\ 2 * SumOf(RecentEarnings(history, rule.N))
                    < rule.threshold2 * rule.N)
              => drivers[d].behaviour = GreedyDistanceBehaviour(10)

(* the coordinates of the requests in one of the statuses, in list order *)
CoordinatesOf(statuses, end) ==
    LET idx == SelectSeq([r \in 1..Len(requests) |-> r],
                         LAMBDA r : requests[r].status \in statuses)
    IN  [k \in 1..Len(idx) |->
            IF end = "pickup" THEN pt[requests[idx[k]].pickup]
            ELSE pt[requests[idx[k]].dropoff]]

(* C32: get_snapshot changes no engine, driver or request state and       *)
(* returns the current time, one entry per driver with id, coordinates    *)
(* and status, the pickups of exactly the WAITING and ASSIGNED requests,  *)
(* the dropoffs of exactly the PICKED requests, and served_count,         *)
(* expired_count and avg_wait = total_wait_time / completed_deliveries    *)
(* (0 when completed_deliveries is 0).                                    *)
SnapshotReadsState ==
    obs.op = "snapshot" =>
      LET snap == obs.snapshot
      IN  /\ obs.before = Cur
          /\ snap.time = time
          /\ Len(snap.drivers) = Len(drivers)
          /\ \A d \in DrvIdx :
                snap.drivers[d] = [id |-> drivers[d].id,
                                   x |-> pt[drivers[d].position].x,
                                   y |-> pt[drivers[d].position].y,
                                   status |-> drivers[d].status]
          /\ [k \in 1..Len(snap.pickups) |-> pt[snap.pickups[k]]]
               = CoordinatesOf({"WAITING", "ASSIGNED"}, "pickup")
          /\ [k \in 1..Len(snap.dropoffs) |-> pt[snap.dropoffs[k]]]
               = CoordinatesOf({"PICKED"}, "dropoff")
          /\ snap.statistics.served_count = served_count
          /\ snap.statistics.expired_count = expired_count
          /\ snap.statistics.avg_wait =
               IF completed_deliveries > 0
               THEN <<total_wait_time, completed_deliveries>>
               ELSE <<0, 1>>

SnapshotWithAllLists ==
    /\ obs.op = "snapshot"
    /\ Len(obs.snapshot.pickups) = 1
    /\ Len(obs.snapshot.dropoffs) = 1
    /\ \E r \in ReqIdx : requests[r].status = "ASSIGNED"
    /\ obs.snapshot.statistics.avg_wait[1] > 0

(* the state the offers of the last tick were decided in, with the       *)
(* behaviours the drivers had when the tick began                         *)
DecideState ==
    [drivers |-> [d \in DrvIdx |->
                     [obs.before_finalize.drivers[d] EXCEPT
                        !.behaviour = obs.behaviour_before[d]]],
     requests |-> obs.before_finalize.requests,
     pt |-> obs.offer_pt,
     time |-> obs.clock]

(* C33: the stages of a tick run in the order generate, expire, propose,  *)
(* decide, finalize, move, mutate, advance clock: a request generated in  *)
(* the tick is passed to the policy in that tick, a driver assigned in    *)
(* the tick steps towards its pickup in that tick, a driver that          *)
(* delivered in the tick ends the tick IDLE without a request, and the    *)
(* offers are decided by the behaviours the drivers had when the tick     *)
(* began, not by the ones the mutation stage of the tick installs.        *)
StagesInOrder ==
    obs.op = "tick" =>
      /\ time = obs.clock + 1
      /\ \A r \in ReqIdx :
            requests[r].creation_time = obs.clock =>
              \E k \in 1..Len(obs.active) : obs.active[k] = r
      /\ \A k \in 1..Len(obs.calls) :
            LET d == obs.calls[k].driver
                r == obs.calls[k].request
            IN  /\ obs.steps[d].status = "TO_PICKUP"
                /\ obs.steps[d].current_request = r
                /\ obs.steps[d].has_target
                /\ obs.steps[d].from # obs.steps[d].target
                     => obs.steps[d].to # obs.steps[d].from
      /\ \A r \in ReqIdx, d \in DrvIdx :
            (/\ requests[r].status = "DELIVERED"
             /\ obs.changed_at[r] = obs.clock
             /\ requests[r].assigned_driver_id = drivers[d].id)
            => /\ drivers[d].status = "IDLE"
               /\ drivers[d].current_request = None
      /\ obs.accepted =
           SelectSeq(obs.proposals,
                     LAMBDA pair : decide(DecideState, pair[1],
                                          Offer(DecideState, pair[1], pair[2]),
                                          obs.clock))

MutatedBehaviourDecidesNextTick ==
    /\ obs.op = "tick"
    /\ obs.behaviour_before[1] = GreedyDistanceBehaviour(10)
    /\ Len(obs.calls) = 1
    /\ requests[obs.calls[1].request].creation_time = obs.clock
    /\ obs.steps[1].to # obs.steps[1].from

HasCall(d, r) ==
    \E k \in 1..Len(obs.calls) :
        obs.calls[k].driver = d /\ obs.calls[k].request = r

DriverCalled(d) == \E k \in 1..Len(obs.calls) : obs.calls[k].driver = d

RequestCalled(r) == \E k \in 1..Len(obs.calls) : obs.calls[k].request = r

(* the proposed pairs of the last tick that did not lead to an            *)
(* assign_request call: rejected by the behaviour, or skipped             *)
Unassigned ==
    {obs.proposals[k] : k \in 1..Len(obs.proposals)}
      \ {<<obs.calls[k].driver, obs.calls[k].request>> : k \in 1..Len(obs.calls)}

DriverAndRequestAgree ==
    /\ \A d \in DrvIdx :
          LET r == drivers[d].current_request
          IN  /\ drivers[d].status = "TO_PICKUP"
                   <=> (r # None /\ requests[r].status = "ASSIGNED")
              /\ drivers[d].status = "TO_DROPOFF"
                   <=> (r # None /\ requests[r].status = "PICKED")
              /\ r # None => requests[r].assigned_driver_id = drivers[d].id
    /\ \A r \in ReqIdx :
          requests[r].status \in Held =>
            Cardinality({d \in DrvIdx : drivers[d].current_request = r}) = 1

OneToPickupOneToDropoff ==
    /\ drivers[1].status = "TO_DROPOFF"
    /\ drivers[2].status = "TO_PICKUP"
    /\ requests[drivers[1].current_request].status = "PICKED"
    /\ requests[drivers[2].current_request].status = "ASSIGNED"
    /\ \E r \in ReqIdx : requests[r].status = "DELIVERED"

(* the most requests a run creates: one per tick up to clock MaxGenTime *)
RequestSlots == 1..(MaxGenTime + 1)

(* C36: when tick() is called forever and every driver has speed > 0,     *)
(* every request is eventually DELIVERED or EXPIRED, every driver that    *)
(* was assigned a request is eventually IDLE again, and a request is      *)
(* WAITING at most until timeout + 1 ticks after the tick that created    *)
(* it.                                                                    *)
EverythingFinishes ==
    /\ \A r \in RequestSlots :
          (Len(requests) >= r)
            ~> (Len(requests) >= r
                /\ requests[r].status \in {"DELIVERED", "EXPIRED"})
    /\ \A d \in 1..2 :
          (drivers[d].status # "IDLE") ~> (drivers[d].status = "IDLE")
    /\ [](\A r \in ReqIdx :
            requests[r].status = "WAITING"
              => time <= requests[r].creation_time + timeout + 1)

DeliveredAndExpiredAtRest ==
    /\ Settled(Cur)
    /\ time > MaxGenTime
    /\ \E r \in ReqIdx : requests[r].status = "DELIVERED"
    /\ \E r \in ReqIdx :
          /\ requests[r].status = "EXPIRED"
          /\ requests[r].assigned_driver_id = None
          /\ time = requests[r].creation_time + timeout + 2
    /\ \A d \in DrvIdx : drivers[d].history # <<>>

(* the engine state the policy was called on *)
AssignedOn ==
    [Cur EXCEPT !.drivers = obs.before.drivers,
                !.requests = obs.before.requests,
                !.pt = obs.before.pt]

DistinctDistances ==
    \A a, b \in IdleDrivers \X ReqIdx :
        a # b => Dist(a[1], a[2]) # Dist(b[1], b[2])

(* C37: when the driver-to-pickup distances of all (IDLE driver, request) *)
(* pairs are pairwise distinct, NearestNeighborPolicy.assign and          *)
(* GlobalGreedyPolicy.assign return the same pairs in the same order.     *)
PoliciesAgreeWithoutTies ==
    (obs.op = "assign" /\ DistinctDistances) =>
      /\ ~obs.raised
      /\ obs.matches
           = NearestNeighborAssign(AssignedOn, obs.requests_before).matches
      /\ ~GlobalGreedyAssign(AssignedOn, obs.requests_before).raised
      /\ obs.matches
           = GlobalGreedyAssign(AssignedOn, obs.requests_before).matches

FarPairMatchedFirst ==
    /\ obs.op = "assign"
    /\ policy = "GlobalGreedyPolicy"
    /\ DistinctDistances
    /\ IdleDrivers = {1, 2}
    /\ obs.matches = << <<2, 2>>, <<1, 1>> >>
    /\ NearestNeighborAssign(AssignedOn, obs.requests_before).matches
         = << <<2, 2>>, <<1, 1>> >>

(* C38: for every input NearestNeighborPolicy.assign and                  *)
(* GlobalGreedyPolicy.assign each return exactly min(number of IDLE       *)
(* drivers, number of requests) pairs, also when distances are equal.     *)
ReturnsMinimumOfBoth ==
    obs.op = "assign" =>
      /\ ~obs.raised
      /\ Len(obs.matches) = Min(Cardinality(IdleDrivers), Len(requests))

(* the requests that changed to DELIVERED in the last tick *)
DeliveredInTick ==
    {r \in ReqIdx : /\ Len(obs.rlog[r]) > 1
                    /\ obs.rlog[r][Len(obs.rlog[r])] = "DELIVERED"}

(* C39: for any initial driver state the constructor accepts, a tick      *)
(* increases served_count and completed_deliveries by the number of       *)
(* requests that changed to DELIVERED in that tick.                       *)
CountersCountDeliveries ==
    obs.op = "tick" =>
      /\ served_count = obs.served_before + Cardinality(DeliveredInTick)
      /\ completed_deliveries
           = obs.completed_before + Cardinality(DeliveredInTick)

LazyBeyondTimeout(d) ==
    /\ drivers[d].behaviour.kind = "LazyBehaviour"
    /\ drivers[d].behaviour.param > timeout

(* the requests the last tick proposed to a driver whose LazyBehaviour    *)
(* waits for longer than the timeout                                      *)
ProposedToLazy ==
    {obs.proposals[k][2] : k \in {j \in 1..Len(obs.proposals) :
                                     LazyBeyondTimeout(obs.proposals[j][1])}}

(* C40: a driver whose behaviour is LazyBehaviour(m) with m > timeout is  *)
(* never assigned a request: every request offered to it has              *)
(* wait_time <= timeout < m and is refused; a request proposed to such a  *)
(* driver at wait_time = timeout and left WAITING expires in the next     *)
(* tick.                                                                  *)
LazyBeyondTimeoutNeverAssigned ==
    /\ [](\A d \in DrvIdx :
            LazyBeyondTimeout(d) =>
              /\ drivers[d].status = "IDLE"
              /\ drivers[d].current_request = None
              /\ drivers[d].history = <<>>
              /\ \A r \in ReqIdx : requests[r].assigned_driver_id # drivers[d].id
              /\ obs.op = "tick" =>
                    \A k \in 1..Len(obs.proposals) :
                        obs.proposals[k][1] = d =>
                          /\ obs.after_lifecycle[obs.proposals[k][2]].wait_time
                               <= timeout
                          /\ \A j \in 1..Len(obs.accepted) :
                                obs.accepted[j] # obs.proposals[k])
    /\ [][\A r \in ProposedToLazy :
            (/\ obs.op = "tick"
             /\ requests[r].status = "WAITING"
             /\ requests[r].wait_time = timeout)
              => requests'[r].status = "EXPIRED"]_vars

LazyOfferedAtTimeout ==
    /\ obs.op = "tick"
    /\ \E r \in ProposedToLazy :
          /\ requests[r].status = "WAITING"
          /\ requests[r].wait_time = timeout

====
